---- MODULE Spec2Model ----
(***************************************************************************)
(* A model of the window / render-surface life cycle of alexandria-dx11:   *)
(* the window procedure and the poll loop of src/window.rs, the swap-chain *)
(* resize and the viewport registry of src/graphics.rs and src/viewport.rs.*)
(* The operating system (message queue, window rectangle, keyboard) and    *)
(* the host render loop are the environment.                               *)
(***************************************************************************)
EXTENDS Integers, Sequences, FiniteSets, TLC

(* ---------------------------------------------------------------- bounds *)

\* Number of environment inputs in one behaviour: operating-system events
\* (user actions) and viewports the host creates.
MaxEvents == 3

\* Number of create_viewport calls in a behaviour of the host-interface
\* specifications (RegistrySpec, FrameSpec).
MaxKeys == 3

\* The count of begin_render calls since the last end_render call saturates here.
MaxBegins == 2

\* Capacity of the diagnostic message queue of the device.
MaxMessages == 2

\* The count of messages dispatched in one poll_events call saturates here; it
\* is above the number of messages the operating system can post.
MaxDispatched == MaxEvents + 2

(* ------------------------------------------------------------- constants *)

MIN_SIZE_X == 800
MIN_SIZE_Y == 600

\* Option::None of a view; a present view is the size of the buffer it views.
None == <<>>

\* The null window handle and the handle create_window_ex returns.
NULL == "null"
HWND == "hwnd"

\* The client size the host constructs the window with.
InitClientSize == <<MIN_SIZE_X, MIN_SIZE_Y>>

\* win32::adjust_window_rect for an overlapped window: the window rectangle
\* is the client rectangle plus the frame and the caption.
AdjustWindowRect(w, h) == <<w + 16, h + 39>>

\* The window-rectangle sizes the user can give the window.
WindowRects == {<<MIN_SIZE_X, MIN_SIZE_Y>>, <<MIN_SIZE_X, 720>>, <<1936, 1119>>}

\* The physical keys of the environment, as raw keyboard records without
\* the make/break flag: 0x1E is A, 0x45 is the numeric-lock code.
RawKeys == {[make_code |-> 30, e0 |-> FALSE, e1 |-> FALSE],
            [make_code |-> 69, e0 |-> FALSE, e1 |-> FALSE]}

NoRaw == [make_code |-> 0, e0 |-> FALSE, e1 |-> FALSE, pressed |-> FALSE]

\* The raw input of a device that is not a keyboard: RawInput::keyboard() is
\* None for it (make_code -1 stands for the missing keyboard part).
RawOther == [make_code |-> -1, e0 |-> FALSE, e1 |-> FALSE, pressed |-> FALSE]

\* The pointer-sized l_param is held as its words: <<bits 0..15, bits 16..31,
\* bits 32..63>>, the first two as numbers in 0..65535.
LParamZero == <<0, 0, 0>>

\* A message that carries nothing in l_param.
Msg(message, w_param, raw) ==
    [message |-> message, w_param |-> w_param, raw |-> raw, l_param |-> LParamZero]

\* The l_param of a mouse message for the client-area point (x, y): x in bits
\* 0..15 and y in bits 16..31, each as a 16-bit two's complement number; high
\* is what the platform leaves in the upper half (0, or -1 for a
\* sign-extended value).
PackLParam(x, y, high) == <<x % 65536, y % 65536, high>>

\* l_param & 0xFFFF and (l_param >> 16) & 0xFFFF
LowWord(l_param) == l_param[1] % 65536
HighWord(l_param) == l_param[2] % 65536

MouseMsg(message, point) ==
    [message |-> message, w_param |-> "0", raw |-> NoRaw,
     l_param |-> PackLParam(point[1], point[2], 0)]

\* The client-area origin inside the window rectangle (frame, caption).
ClientOrigin == <<8, 31>>

\* The screen positions the user can move the window to or from.
WindowPositions == {<<0, 0>>, <<100, 50>>}

\* The screen positions the user can move the cursor to.
CursorPoints == {<<408, 331>>, <<420, 340>>}

\* Every raw keyboard record: 8-bit make code, E0, E1, make or break.
MakeCodes == 0..255
AllRawKeys == [make_code : MakeCodes, e0 : BOOLEAN, e1 : BOOLEAN, pressed : BOOLEAN]

\* The rectangles the host gives an existing viewport.
HostUpdateRects == {<<<<10, 10>>, <<200, 100>>>>}

\* The viewport rectangles and resize policies the host supplies.
HostRects == {<<<<0, 0>>, <<400, 300>>>>}
Updaters == {"None", "Full", "LeftHalf"}

(* ----------------------------------------------------------------- state *)

VARIABLES
    \* Window (src/window.rs)
    input, width, height, h_wnd, msg, minimized, in_size_move, window_size_changed,
    mouse_center, update_mouse_center, debug_logging,
    \* Graphics (src/graphics.rs)
    swap_chain, render_target_view, depth_stencil_buffer, depth_stencil_view,
    rendering, viewports, new_viewport_key, default_viewport,
    \* the number of messages stored in the device's diagnostic queue
    info_queue,
    \* the device context: bound output-merger targets, rasterizer viewport
    om_bound, rs_viewport,
    \* the RefCell that holds the device context: "unborrowed", "borrowed", or
    \* "BorrowMutError" once a borrow_mut found it borrowed
    device_context,
    \* control: where the single thread is, arguments of resize_swap_chain
    pc, resize_arg,
    \* operating system
    queue, winSize, osMinimized, osSizeMove, keysDown, destroyed, events,
    \* the screen position of the window and of the cursor
    winPos, cursor,
    \* history: what the current poll cycle and the current resize have done
    poll_result, frame_resets, dispatched, quit_seen, update_size_calls, commits,
    down_edges, dispatched_down, call_log,
    \* history: the result of the last parse_vkey, the policy calls of the last
    \* update_viewports, the keys create_viewport returned and remove_viewport
    \* was given, the result and the present calls of the last end_render, the
    \* begin_render calls since the last end_render, the cursor warps of the last
    \* handler, the key last given to set_active_viewport (-1: none yet)
    decoded, updater_calls, returned_keys, removed_keys, end_result, presents, begins, warps,
    selected,
    \* history: the calls the handler of the message in msg made on the input model
    input_calls,
    \* Window::graphics ("None" or "Some"); history: what Graphics::new and
    \* Window::new returned ("none" before they return) and the platform calls
    \* Window::new has made, each with its outcome
    graphics, graphics_new, window_new, new_calls,
    \* the GWLP_USERDATA slot of the window (NULL until WM_CREATE is routed)
    user_data,
    \* the MINMAXINFO structure of the last size-constraint query (None: no
    \* query yet)
    min_max_info

constructVars == <<graphics, graphics_new, window_new, new_calls, user_data>>

winVars == <<input, width, height, h_wnd, constructVars, min_max_info, msg, minimized,
            in_size_move, window_size_changed>>
surfaceVars == <<swap_chain, render_target_view, depth_stencil_buffer, depth_stencil_view,
                 om_bound, rs_viewport, device_context>>
registryVars == <<viewports, new_viewport_key, default_viewport>>
osVars == <<winSize, osMinimized, osSizeMove, keysDown, destroyed, events>>
historyVars == <<poll_result, frame_resets, dispatched, quit_seen, update_size_calls, commits,
                 down_edges, dispatched_down, call_log>>

mouseVars == <<mouse_center, update_mouse_center, winPos, cursor, warps>>
frameVars == <<debug_logging, info_queue, end_result, presents, begins>>
traceVars == <<decoded, updater_calls, returned_keys, removed_keys, selected, input_calls>>

vars == <<winVars, surfaceVars, registryVars, rendering, pc, resize_arg, queue, osVars,
          historyVars, mouseVars, frameVars, traceVars>>

\* The steps of Graphics::resize_swap_chain, in the order of the source.
ResizePcs == {"om_set_render_targets", "drop_render_target_view", "drop_depth_stencil_view",
              "flush", "resize_buffers", "create_render_target_view",
              "create_depth_stencil_view", "rs_set_viewports"}

(* ------------------------------------------------ input model (collaborator) *)

\* The per-frame transition sets and the held set of the input model.
NewInput == [keys_pressed |-> {}, keys_released |-> {}, keys_held |-> {},
             mouse_locked |-> FALSE, mouse_position |-> <<0, 0>>, buttons_held |-> {}]

frame_reset(i) == [i EXCEPT !.keys_pressed = {}, !.keys_released = {}]

key_down(i, k) == [i EXCEPT !.keys_pressed = @ \cup {k}, !.keys_held = @ \cup {k}]

key_up(i, k) == [i EXCEPT !.keys_released = @ \cup {k}, !.keys_held = @ \ {k}]

mouse_down(i, button) == [i EXCEPT !.buttons_held = @ \cup {button}]

mouse_up(i, button) == [i EXCEPT !.buttons_held = @ \ {button}]

update_mouse_position(i, position) == [i EXCEPT !.mouse_position = position]

is_mouse_locked(i) == i.mouse_locked

set_mouse_lock(i, lock) == [i EXCEPT !.mouse_locked = lock]

(* ------------------------------------------------------------ key decoding *)

CODES == <<
       "None", "Escape", "_1", "_2", "_3", "_4",
       "_5", "_6", "_7", "_8", "_9", "_0",
       "Dash", "Equal", "Backspace", "Tab", "Q", "W",
       "E", "R", "T", "Y", "U", "I",
       "O", "P", "LeftSquareBracket", "RightSquareBracket", "Enter", "LeftControl",
       "A", "S", "D", "F", "G", "H",
       "J", "K", "L", "SemiColon", "Quote", "Tilde",
       "LeftShift", "BackSlash", "Z", "X", "C", "V",
       "B", "N", "M", "Comma", "Period", "ForwardSlash",
       "RightShift", "NumpadMultiply", "LeftAlt", "Space", "CapsLock", "F1",
       "F2", "F3", "F4", "F5", "F6", "F7",
       "F8", "F9", "F10", "None", "ScrollLock", "Numpad7",
       "Numpad8", "Numpad9", "NumpadSubtract", "Numpad4", "Numpad5", "Numpad6",
       "NumpadAdd", "Numpad1", "Numpad2", "Numpad3", "Numpad0", "NumpadDecimal",
       "None", "None", "None", "F11", "F12", "None",
       "None", "Windows", "None", "Menu" >>

\* The override arms of parse_vkey: <<key for e0 clear, key for e0 set>>.
ExtendedPair(key_code) ==
    CASE key_code = 28 -> <<"Enter", "NumpadEnter">>
      [] key_code = 42 -> <<"LeftShift", "None">>
      [] key_code = 53 -> <<"ForwardSlash", "NumpadDivide">>
      [] key_code = 55 -> <<"NumpadMultiply", "PrintScreen">>
      [] key_code = 56 -> <<"LeftAlt", "RightAlt">>
      [] key_code = 71 -> <<"Numpad7", "Home">>
      [] key_code = 72 -> <<"Numpad8", "UpArrow">>
      [] key_code = 73 -> <<"Numpad9", "PageUp">>
      [] key_code = 75 -> <<"Numpad4", "LeftArrow">>
      [] key_code = 77 -> <<"Numpad6", "RightArrow">>
      [] key_code = 79 -> <<"Numpad1", "End">>
      [] key_code = 80 -> <<"Numpad2", "DownArrow">>
      [] key_code = 81 -> <<"Numpad3", "PageDown">>
      [] key_code = 82 -> <<"Numpad0", "Insert">>
      [] key_code = 83 -> <<"NumpadDecimal", "Delete">>

ExtendedCodes == {28, 42, 53, 55, 56, 71, 72, 73, 75, 77, 79, 80, 81, 82, 83}

\* Fault variant: the extended flag is not looked at, the table decides.
parse_vkey_TableOnly(key) ==
    LET key_code == key.make_code % 128
    IN  IF key_code >= Len(CODES) THEN "None" ELSE CODES[key_code + 1]

\* Fault variant: the make code is not reduced to its low 7 bits.
parse_vkey_NoMask(key) ==
    LET key_code == key.make_code
    IN  IF key_code >= Len(CODES) THEN "None"
        ELSE IF key_code = 29
             THEN IF key.e0 THEN "RightControl"
                  ELSE IF key.e1 THEN "Pause" ELSE "LeftControl"
        ELSE IF key_code \in ExtendedCodes
             THEN ExtendedPair(key_code)[IF key.e0 THEN 2 ELSE 1]
        ELSE CODES[key_code + 1]

\* Fault variant: the table entry of 0x45 is the Pause key.
parse_vkey_PauseAt45(key) ==
    LET key_code == key.make_code % 128
    IN  IF key_code >= Len(CODES) THEN "None"
        ELSE IF key_code = 69 THEN "Pause"
        ELSE IF key_code = 29
             THEN IF key.e0 THEN "RightControl"
                  ELSE IF key.e1 THEN "Pause" ELSE "LeftControl"
        ELSE IF key_code \in ExtendedCodes
             THEN ExtendedPair(key_code)[IF key.e0 THEN 2 ELSE 1]
        ELSE CODES[key_code + 1]

\* parse_vkey: the logical key of a raw keyboard record, "None" for none.
parse_vkey(key) ==
    LET key_code == key.make_code % 128
    IN  IF key_code >= Len(CODES) THEN "None"
        ELSE IF key_code = 29
             THEN IF key.e0 THEN "RightControl"
                  ELSE IF key.e1 THEN "Pause" ELSE "LeftControl"
        ELSE IF key_code \in ExtendedCodes
             THEN ExtendedPair(key_code)[IF key.e0 THEN 2 ELSE 1]
        ELSE CODES[key_code + 1]

(* ------------------------------------------------------------------- Init *)

\* The MINMAXINFO structure the system fills in before it asks the window.
OsMinMaxInfo == [min_track_size |-> <<136, 39>>, max_track_size |-> <<1936, 1096>>]

\* MinMaxInfo::set_min_size(x, y): the minimum tracking size of the structure.
set_min_size(info, x, y) == [info EXCEPT !.min_track_size = <<x, y>>]

\* The platform calls of Window::new and, inside it, of Graphics::new (debug
\* build), in the order of the code.
NewOrder ==
    <<"register_class_ex", "adjust_window_rect", "create_window_ex",
      "register_raw_input_devices", "IDXGIFactory_new", "enum_adapters", "enum_outputs",
      "get_display_mode_list", "d3d11_create_device_and_swap_chain", "get_buffer",
      "create_render_target_view", "create_texture_2d", "create_depth_stencil_view",
      "create_depth_stencil_state", "create_rasterizer_state", "query_interface",
      "push_empty_storage_filter", "create_blend_state", "client_to_screen">>

\* win32::client_to_screen(h_wnd, x, y) for a window at position pos.
client_to_screen(pos, x, y) == <<pos[1] + ClientOrigin[1] + x, pos[2] + ClientOrigin[2] + y>>

\* The client-area point under screen point p for a window at position pos.
screen_to_client(pos, p) == <<p[1] - pos[1] - ClientOrigin[1], p[2] - pos[2] - ClientOrigin[2]>>

Init ==
    /\ input = NewInput
    /\ width = InitClientSize[1]
    /\ height = InitClientSize[2]
    /\ h_wnd = HWND
    /\ graphics = "Some"
    /\ graphics_new = "Ok"
    /\ window_new = "Ok"
    /\ user_data = "window"
    /\ min_max_info = set_min_size(OsMinMaxInfo, MIN_SIZE_X, MIN_SIZE_Y)
    /\ new_calls = [i \in 1..Len(NewOrder) |-> <<NewOrder[i], TRUE>>]
    /\ msg = Msg("WM_NULL", "0", NoRaw)
    /\ minimized = FALSE
    /\ in_size_move = FALSE
    /\ window_size_changed = FALSE
    /\ swap_chain = InitClientSize
    /\ render_target_view = InitClientSize
    /\ depth_stencil_buffer = InitClientSize
    /\ depth_stencil_view = InitClientSize
    /\ rendering = FALSE
    /\ viewports = <<>>
    /\ new_viewport_key = 0
    /\ default_viewport = 0
    /\ om_bound = FALSE
    /\ rs_viewport = <<<<0, 0>>, InitClientSize>>
    /\ device_context = "unborrowed"
    /\ pc = "host"
    /\ resize_arg = InitClientSize
    /\ queue = <<>>
    /\ winSize = AdjustWindowRect(InitClientSize[1], InitClientSize[2])
    /\ osMinimized = FALSE
    /\ osSizeMove = FALSE
    /\ keysDown = {}
    /\ destroyed = FALSE
    /\ events = 0
    /\ poll_result = "none"
    /\ frame_resets = 0
    /\ dispatched = 0
    /\ quit_seen = 0
    /\ update_size_calls = 0
    /\ commits = 0
    /\ down_edges = {}
    /\ dispatched_down = {}
    /\ call_log = <<>>
    /\ mouse_center = client_to_screen(<<0, 0>>, InitClientSize[1] \div 2,
                                       InitClientSize[2] \div 2)
    /\ update_mouse_center = FALSE
    /\ debug_logging = FALSE
    /\ info_queue = 0
    /\ winPos = <<0, 0>>
    /\ cursor = <<420, 340>>
    /\ decoded = "no_call"
    /\ input_calls = <<>>
    /\ selected = -1
    /\ updater_calls = <<>>
    /\ returned_keys = <<>>
    /\ removed_keys = {}
    /\ end_result = "none"
    /\ presents = <<>>
    /\ begins = 0
    /\ warps = <<>>

(* ------------------------------------------- environment: operating system *)

\* Events reach the queue while the thread is in the host loop or between two
\* messages of the drain loop; an event that arrives during a handler is seen
\* by the next peek, as if it had arrived right after the handler.
OsCanPost == pc \in {"host", "peek"} /\ events < MaxEvents /\ ~destroyed

Post(m) == queue' = Append(queue, m) /\ events' = events + 1

\* The user grabs a window edge or the caption.
OsEnterSizeMove ==
    /\ OsCanPost /\ ~osSizeMove /\ ~osMinimized
    /\ osSizeMove' = TRUE
    /\ Post(Msg("WM_ENTERSIZEMOVE", "0", NoRaw))
    /\ UNCHANGED <<winSize, osMinimized, keysDown, destroyed>>

\* The user releases the window.
OsExitSizeMove ==
    /\ OsCanPost /\ osSizeMove
    /\ osSizeMove' = FALSE
    /\ Post(Msg("WM_EXITSIZEMOVE", "0", NoRaw))
    /\ UNCHANGED <<winSize, osMinimized, keysDown, destroyed>>

\* The window gets size s (a drag step inside a gesture, a programmatic resize
\* or a maximize outside one), or the size notification is repeated.
OsResize(s) ==
    /\ OsCanPost /\ ~osMinimized
    /\ winSize' = s
    /\ Post(Msg("WM_SIZE", "SIZE_RESTORED", NoRaw))
    /\ UNCHANGED <<osMinimized, osSizeMove, keysDown, destroyed>>

OsMinimize ==
    /\ OsCanPost /\ ~osMinimized /\ ~osSizeMove
    /\ osMinimized' = TRUE
    /\ Post(Msg("WM_SIZE", "SIZE_MINIMIZED", NoRaw))
    /\ UNCHANGED <<winSize, osSizeMove, keysDown, destroyed>>

\* The window is restored from minimized, to its old size or to size s.
OsRestore(s) ==
    /\ OsCanPost /\ osMinimized
    /\ osMinimized' = FALSE
    /\ winSize' = s
    /\ Post(Msg("WM_SIZE", IF s = winSize THEN "SIZE_RESTORED" ELSE "SIZE_MAXIMIZED", NoRaw))
    /\ UNCHANGED <<osSizeMove, keysDown, destroyed>>

\* A key goes down, or repeats while it is held down.
OsKeyDown(k) ==
    /\ OsCanPost
    /\ keysDown' = keysDown \cup {k}
    /\ Post(Msg("WM_INPUT", "0", [make_code |-> k.make_code, e0 |-> k.e0, e1 |-> k.e1,
                                  pressed |-> TRUE]))
    /\ UNCHANGED <<winSize, osMinimized, osSizeMove, destroyed>>

OsKeyUp(k) ==
    /\ OsCanPost /\ k \in keysDown
    /\ keysDown' = keysDown \ {k}
    /\ Post(Msg("WM_INPUT", "0", [make_code |-> k.make_code, e0 |-> k.e0, e1 |-> k.e1,
                                  pressed |-> FALSE]))
    /\ UNCHANGED <<winSize, osMinimized, osSizeMove, destroyed>>

\* The user asks to close the window.
OsClose ==
    /\ OsCanPost
    /\ Post(Msg("WM_CLOSE", "0", NoRaw))
    /\ UNCHANGED <<winSize, osMinimized, osSizeMove, keysDown, destroyed>>

OsEvent ==
    /\ \/ OsEnterSizeMove
       \/ OsExitSizeMove
       \/ \E s \in WindowRects : OsResize(s)
       \/ OsMinimize
       \/ \E s \in WindowRects \cup {winSize} : OsRestore(s)
       \/ \E k \in RawKeys : OsKeyDown(k)
       \/ \E k \in RawKeys : OsKeyUp(k)
       \/ OsClose
    /\ UNCHANGED <<winVars, surfaceVars, registryVars, rendering, pc, resize_arg, historyVars,
                   mouseVars, frameVars, traceVars>>

\* The user moves the mouse: the cursor is at screen point p.
OsMouseMove(p) ==
    /\ OsCanPost
    /\ cursor' = p
    /\ Post(MouseMsg("WM_MOUSEMOVE", screen_to_client(winPos, p)))
    /\ UNCHANGED winPos

\* The user moves the window to screen position pos.
OsMoveWindow(pos) ==
    /\ OsCanPost /\ ~osMinimized
    /\ winPos' = pos
    /\ Post(Msg("WM_WINDOWPOSCHANGED", "0", NoRaw))
    /\ UNCHANGED cursor

\* The window gains the keyboard focus.
OsSetFocus ==
    /\ OsCanPost
    /\ Post(Msg("WM_SETFOCUS", "0", NoRaw))
    /\ UNCHANGED <<winPos, cursor>>

OsMouseEvent ==
    /\ \/ \E p \in CursorPoints : OsMouseMove(p)
       \/ \E pos \in WindowPositions : OsMoveWindow(pos)
       \/ OsSetFocus
    /\ UNCHANGED <<winVars, surfaceVars, registryVars, rendering, pc, resize_arg, historyVars,
                   winSize, osMinimized, osSizeMove, keysDown, destroyed,
                   mouse_center, update_mouse_center, warps, frameVars, traceVars>>

(* ------------------------------------------------- Window::update_size *)

\* win32::get_window_rect(h_wnd): the size of the window rectangle.
get_window_rect == winSize

\* update_size returns without a commit; control goes back to where the
\* window procedure was called from (the drain loop, or a platform call of
\* Window::new).
UpdateSizeReturns ==
    /\ pc' = pc
    /\ update_size_calls' = update_size_calls + 1
    /\ UNCHANGED <<width, height, window_size_changed, resize_arg, commits, call_log>>

\* Fault variant: resize_swap_chain is called with the size stored before the commit.
UpdateSizeCommits_ResizesOld(new_width, new_height) ==
    /\ width' = new_width
    /\ height' = new_height
    /\ window_size_changed' = TRUE
    /\ resize_arg' = <<width, height>>
    /\ update_size_calls' = update_size_calls + 1
    /\ commits' = commits + 1
    /\ call_log' = <<>>
    /\ pc' = "om_set_render_targets"

\* Fault variant: the viewports are laid out before the render surface is resized.
UpdateSizeCommits_RelayoutFirst(new_width, new_height) ==
    /\ width' = new_width
    /\ height' = new_height
    /\ window_size_changed' = TRUE
    /\ resize_arg' = <<new_width, new_height>>
    /\ update_size_calls' = update_size_calls + 1
    /\ commits' = commits + 1
    /\ call_log' = <<>>
    /\ pc' = "update_viewports"

\* update_size stores the new size and enters Graphics::resize_swap_chain.
UpdateSizeCommits(new_width, new_height) ==
    /\ width' = new_width
    /\ height' = new_height
    /\ window_size_changed' = TRUE
    /\ resize_arg' = <<new_width, new_height>>
    /\ update_size_calls' = update_size_calls + 1
    /\ commits' = commits + 1
    /\ call_log' = <<>>
    /\ pc' = "om_set_render_targets"

\* update_size stores the new size; self.graphics.as_mut().unwrap() finds
\* None and aborts the thread.
UpdateSizePanics(new_width, new_height) ==
    /\ width' = new_width
    /\ height' = new_height
    /\ window_size_changed' = TRUE
    /\ update_size_calls' = update_size_calls + 1
    /\ pc' = "panicked"
    /\ UNCHANGED <<resize_arg, commits, call_log>>

\* Fault variant: the comparison with the stored size is missing.
update_size_AlwaysCommits ==
    IF h_wnd = NULL
    THEN UpdateSizeReturns
    ELSE UpdateSizeCommits(get_window_rect[1], get_window_rect[2])

update_size ==
    IF h_wnd = NULL
    THEN UpdateSizeReturns
    ELSE LET rect == get_window_rect
             new_width == rect[1]
             new_height == rect[2]
         IN  IF new_width = width /\ new_height = height
             THEN UpdateSizeReturns
             ELSE IF graphics = "None"
                  THEN UpdateSizePanics(new_width, new_height)
                  ELSE UpdateSizeCommits(new_width, new_height)

(* ---------------------------------------------------- Window::wnd_proc *)

\* A handler arm that makes no call on the input model.
NoInputCall == input_calls' = <<>>

\* A handler arm that neither warps the cursor nor decodes a key.
NoMouse ==
    /\ warps' = <<>>
    /\ UNCHANGED <<mouse_center, update_mouse_center, cursor>>

\* Window::reset_mouse_position, the call a mouse handler ends with while the
\* mouse is locked: update_mouse_center() if the center is out of date, then
\* win32::set_cursor_pos(mouse_center); warps records the set_cursor_pos call.
\* Either platform call may fail, and expect() then aborts the thread. The
\* platform reports the new cursor position with a mouse-move message when the
\* cursor moved; when the cursor already was at the target it may or may not
\* report one.
reset_mouse_position ==
    /\ pc = "reset_mouse_position"
    /\ LET center == IF update_mouse_center
                     THEN client_to_screen(winPos, width \div 2, height \div 2)
                     ELSE mouse_center
       IN  \/ /\ mouse_center' = center
              /\ update_mouse_center' = FALSE
              /\ cursor' = center
              /\ warps' = <<center>>
              /\ \E reported \in (IF cursor = center THEN BOOLEAN ELSE {TRUE}) :
                    queue' = IF reported
                             THEN Append(queue, MouseMsg("WM_MOUSEMOVE",
                                                         screen_to_client(winPos, center)))
                             ELSE queue
              /\ pc' = "peek"
           \/ \* client_to_screen fails: expect("Failed to convert coordinates!")
              /\ update_mouse_center
              /\ pc' = "panicked"
              /\ warps' = <<>>
              /\ UNCHANGED <<mouse_center, update_mouse_center, cursor, queue>>
           \/ \* set_cursor_pos fails: expect("Failed to set mouse position!")
              /\ mouse_center' = center
              /\ update_mouse_center' = FALSE
              /\ warps' = <<center>>
              /\ pc' = "panicked"
              /\ UNCHANGED <<cursor, queue>>
    /\ UNCHANGED <<winVars, surfaceVars, registryVars, rendering, resize_arg, osVars,
                   historyVars, winPos, frameVars, traceVars>>

\* A handler arm that leaves the size and the render surface alone.
NoResize ==
    UNCHANGED <<width, height, window_size_changed, resize_arg, update_size_calls, commits,
                call_log>>

\* A handler arm that does not reach update_size.
NoUpdateSize ==
    /\ pc' = pc
    /\ UNCHANGED <<width, height, window_size_changed, resize_arg, update_size_calls, commits,
                   call_log>>

\* Fault variant: the notification that ends the minimized state also commits.
WM_SIZE_CommitsOnRestore(m) ==
    /\ IF m.w_param = "SIZE_MINIMIZED"
       THEN minimized' = TRUE /\ NoUpdateSize
       ELSE minimized' = FALSE /\ update_size
    /\ queue' = Tail(queue)
    /\ UNCHANGED <<input, in_size_move, destroyed, down_edges, dispatched_down, decoded>>
    /\ NoInputCall
    /\ NoMouse

WM_SIZE(m) ==
    /\ IF m.w_param = "SIZE_MINIMIZED"
       THEN minimized' = TRUE /\ NoUpdateSize
       ELSE IF minimized
            THEN minimized' = FALSE /\ NoUpdateSize
            ELSE minimized' = minimized /\ update_size
    /\ queue' = Tail(queue)
    /\ UNCHANGED <<input, in_size_move, destroyed, down_edges, dispatched_down, decoded>>
    /\ NoInputCall
    /\ NoMouse

WM_ENTERSIZEMOVE ==
    /\ in_size_move' = TRUE
    /\ NoUpdateSize
    /\ queue' = Tail(queue)
    /\ UNCHANGED <<input, minimized, destroyed, down_edges, dispatched_down, decoded>>
    /\ NoInputCall
    /\ NoMouse

WM_EXITSIZEMOVE ==
    /\ in_size_move' = FALSE
    /\ update_size
    /\ queue' = Tail(queue)
    /\ UNCHANGED <<input, minimized, destroyed, down_edges, dispatched_down, decoded>>
    /\ NoInputCall
    /\ NoMouse

\* Fault variant: the destroy notification posts nothing.
WM_DESTROY_NoQuit == queue' = <<>>

\* WM_DESTROY: post_quit_message(0). The notification is sent by destroy_window,
\* which also discards the messages still queued for the window: the quit
\* message is then the only one the thread has left.
WM_DESTROY == queue' = <<Msg("WM_QUIT", "0", NoRaw)>>

\* WM_CLOSE: destroy_window(h_wnd).unwrap_or(()); destroying the window sends
\* WM_DESTROY to the window procedure before destroy_window returns, and
\* destroying a destroyed window fails, which unwrap_or ignores.
WM_CLOSE ==
    /\ IF destroyed
       THEN queue' = Tail(queue) /\ destroyed' = destroyed
       ELSE destroyed' = TRUE /\ WM_DESTROY
    /\ NoUpdateSize
    /\ NoMouse
    /\ UNCHANGED <<input, minimized, in_size_move, down_edges, dispatched_down, decoded>>
    /\ NoInputCall

\* raw.keyboard() is Some: the raw input record has a keyboard part.
has_keyboard(raw) == raw.make_code >= 0

\* The keyboard part of a raw input record that has one.
keyboard(raw) == raw

\* Fault variant: a key that was released is reported as pressed.
WM_INPUT_AlwaysDown(m) ==
    IF ~has_keyboard(m.raw)
    THEN /\ NoInputCall
         /\ NoUpdateSize
         /\ NoMouse
         /\ queue' = Tail(queue)
         /\ UNCHANGED <<input, down_edges, dispatched_down, decoded, minimized, in_size_move,
                        destroyed>>
    ELSE LET key == parse_vkey(keyboard(m.raw))
         IN  /\ IF key = "None"
                THEN /\ NoInputCall
                     /\ UNCHANGED <<input, down_edges, dispatched_down>>
                ELSE /\ input' = key_down(input, key)
                     /\ input_calls' = <<<<"key_down", key>>>>
                     /\ down_edges' = IF key \in dispatched_down THEN down_edges
                                      ELSE down_edges \cup {key}
                     /\ dispatched_down' = dispatched_down \cup {key}
             /\ decoded' = key
             /\ NoUpdateSize
             /\ NoMouse
             /\ queue' = Tail(queue)
             /\ UNCHANGED <<minimized, in_size_move, destroyed>>

\* WM_INPUT: raw input without a keyboard part is dropped; a raw keyboard
\* record is decoded by parse_vkey and, if it names a key, handed to the input
\* model as key_down or key_up.
WM_INPUT(m) ==
    IF ~has_keyboard(m.raw)
    THEN /\ NoInputCall
         /\ NoUpdateSize
         /\ NoMouse
         /\ queue' = Tail(queue)
         /\ UNCHANGED <<input, down_edges, dispatched_down, decoded, minimized, in_size_move,
                        destroyed>>
    ELSE LET key == parse_vkey(keyboard(m.raw))
             pressed == keyboard(m.raw).pressed
         IN  /\ IF key = "None"
                THEN /\ NoInputCall
                     /\ UNCHANGED <<input, down_edges, dispatched_down>>
                ELSE IF pressed
                     THEN /\ input' = key_down(input, key)
                          /\ input_calls' = <<<<"key_down", key>>>>
                          /\ down_edges' = IF key \in dispatched_down THEN down_edges
                                           ELSE down_edges \cup {key}
                          /\ dispatched_down' = dispatched_down \cup {key}
                     ELSE /\ input' = key_up(input, key)
                          /\ input_calls' = <<<<"key_up", key>>>>
                          /\ dispatched_down' = dispatched_down \ {key}
                          /\ UNCHANGED down_edges
             /\ decoded' = key
             /\ NoUpdateSize
             /\ NoMouse
             /\ queue' = Tail(queue)
             /\ UNCHANGED <<minimized, in_size_move, destroyed>>

\* The mouse-button arms of wnd_proc: <<call on the input model, button>>.
ButtonArm(message) ==
    CASE message = "WM_LBUTTONDOWN" -> <<"mouse_down", "Primary">>
      [] message = "WM_LBUTTONUP" -> <<"mouse_up", "Primary">>
      [] message = "WM_RBUTTONDOWN" -> <<"mouse_down", "Secondary">>
      [] message = "WM_RBUTTONUP" -> <<"mouse_up", "Secondary">>
      [] message = "WM_MBUTTONDOWN" -> <<"mouse_down", "Middle">>
      [] message = "WM_MBUTTONUP" -> <<"mouse_up", "Middle">>

ButtonMessages == {"WM_LBUTTONDOWN", "WM_LBUTTONUP", "WM_RBUTTONDOWN", "WM_RBUTTONUP",
                   "WM_MBUTTONDOWN", "WM_MBUTTONUP"}

\* WM_LBUTTONDOWN .. WM_MBUTTONUP: mouse_down or mouse_up with the button.
WM_BUTTON(m) ==
    LET arm == ButtonArm(m.message)
    IN  /\ input' = IF arm[1] = "mouse_down" THEN mouse_down(input, arm[2])
                                             ELSE mouse_up(input, arm[2])
        /\ input_calls' = <<arm>>
        /\ NoUpdateSize
        /\ NoMouse
        /\ queue' = Tail(queue)
        /\ UNCHANGED <<minimized, in_size_move, destroyed, down_edges, dispatched_down,
                       decoded>>

\* WM_WINDOWPOSCHANGED: the cached cursor center is out of date.
WM_WINDOWPOSCHANGED ==
    /\ update_mouse_center' = TRUE
    /\ warps' = <<>>
    /\ NoUpdateSize
    /\ queue' = Tail(queue)
    /\ UNCHANGED <<input, minimized, in_size_move, destroyed, down_edges, dispatched_down,
                   decoded, mouse_center, cursor>>
    /\ NoInputCall

\* The cast `as i16` of a value in 0..65535.
as_i16(u) == IF u >= 32768 THEN u - 65536 ELSE u

\* Fault variant: the two 16-bit fields are read as unsigned numbers.
WM_MOUSEMOVE_Unsigned(m) ==
    LET x == LowWord(m.l_param)
        y == HighWord(m.l_param)
        width2 == width \div 2
        height2 == height \div 2
    IN  /\ input' = update_mouse_position(input, <<x - width2, y - height2>>)
        /\ input_calls' = <<<<"update_mouse_position", <<x - width2, y - height2>>>>>>
        /\ pc' = IF is_mouse_locked(input') THEN "reset_mouse_position" ELSE "peek"
        /\ NoMouse
        /\ NoResize
        /\ queue' = Tail(queue)
        /\ UNCHANGED <<minimized, in_size_move, destroyed, down_edges, dispatched_down,
                       decoded>>

\* Fault variant: the cursor is put back to the center whether or not the
\* mouse is locked.
WM_MOUSEMOVE_WarpsUnlocked(m) ==
    LET x == as_i16(LowWord(m.l_param))
        y == as_i16(HighWord(m.l_param))
        width2 == width \div 2
        height2 == height \div 2
    IN  /\ input' = update_mouse_position(input, <<x - width2, y - height2>>)
        /\ input_calls' = <<<<"update_mouse_position", <<x - width2, y - height2>>>>>>
        /\ pc' = "reset_mouse_position"
        /\ NoMouse
        /\ NoResize
        /\ queue' = Tail(queue)
        /\ UNCHANGED <<minimized, in_size_move, destroyed, down_edges, dispatched_down,
                       decoded>>

\* WM_MOUSEMOVE: x = (l_param & 0xFFFF) as i16, y = ((l_param >> 16) & 0xFFFF)
\* as i16; the position relative to the window center goes to the input
\* model; a locked mouse is put back to the center.
WM_MOUSEMOVE(m) ==
    LET x == as_i16(LowWord(m.l_param))
        y == as_i16(HighWord(m.l_param))
        width2 == width \div 2
        height2 == height \div 2
    IN  /\ input' = update_mouse_position(input, <<x - width2, y - height2>>)
        /\ input_calls' = <<<<"update_mouse_position", <<x - width2, y - height2>>>>>>
        /\ pc' = IF is_mouse_locked(input') THEN "reset_mouse_position" ELSE "peek"
        /\ NoMouse
        /\ NoResize
        /\ queue' = Tail(queue)
        /\ UNCHANGED <<minimized, in_size_move, destroyed, down_edges, dispatched_down,
                       decoded>>

\* WM_SETFOCUS: a locked mouse is put back to the center.
WM_SETFOCUS ==
    /\ pc' = IF is_mouse_locked(input) THEN "reset_mouse_position" ELSE "peek"
    /\ NoMouse
    /\ NoResize
    /\ queue' = Tail(queue)
    /\ UNCHANGED <<input, minimized, in_size_move, destroyed, down_edges, dispatched_down,
                   decoded>>
    /\ NoInputCall

\* Fault variant: the query is answered only outside a resize gesture.
WM_GETMINMAXINFO_IdleOnly ==
    /\ min_max_info' = IF in_size_move THEN min_max_info
                       ELSE set_min_size(min_max_info, MIN_SIZE_X, MIN_SIZE_Y)
    /\ NoUpdateSize
    /\ queue' = Tail(queue)
    /\ UNCHANGED <<input, minimized, in_size_move, destroyed, down_edges, dispatched_down,
                   decoded>>
    /\ NoInputCall
    /\ NoMouse

\* WM_GETMINMAXINFO: MinMaxInfo::from_l_param(l_param).set_min_size(MIN_SIZE_X,
\* MIN_SIZE_Y); the arm returns 0.
WM_GETMINMAXINFO ==
    /\ min_max_info' = set_min_size(min_max_info, MIN_SIZE_X, MIN_SIZE_Y)
    /\ NoUpdateSize
    /\ queue' = Tail(queue)
    /\ UNCHANGED <<input, minimized, in_size_move, destroyed, down_edges, dispatched_down,
                   decoded>>
    /\ NoInputCall
    /\ NoMouse

\* The messages of window creation that wnd_proc has no arm for.
DefaultMessages == {"WM_NCCREATE", "WM_NCCALCSIZE", "WM_CREATE", "WM_SHOWWINDOW"}

\* _ => return win32::def_window_proc(h_wnd, msg, w_param, l_param)
def_window_proc ==
    /\ NoUpdateSize
    /\ queue' = Tail(queue)
    /\ UNCHANGED <<input, minimized, in_size_move, destroyed, down_edges, dispatched_down,
                   decoded>>
    /\ NoInputCall
    /\ NoMouse

\* The arms of wnd_proc; only the WM_GETMINMAXINFO arm writes through l_param.
wnd_proc(m) ==
    \/ m.message = "WM_SIZE" /\ WM_SIZE(m) /\ UNCHANGED min_max_info
    \/ m.message = "WM_ENTERSIZEMOVE" /\ WM_ENTERSIZEMOVE /\ UNCHANGED min_max_info
    \/ m.message = "WM_EXITSIZEMOVE" /\ WM_EXITSIZEMOVE /\ UNCHANGED min_max_info
    \/ m.message = "WM_GETMINMAXINFO" /\ WM_GETMINMAXINFO
    \/ m.message = "WM_CLOSE" /\ WM_CLOSE /\ UNCHANGED min_max_info
    \/ m.message = "WM_WINDOWPOSCHANGED" /\ WM_WINDOWPOSCHANGED /\ UNCHANGED min_max_info
    \/ m.message = "WM_MOUSEMOVE" /\ WM_MOUSEMOVE(m) /\ UNCHANGED min_max_info
    \/ m.message = "WM_SETFOCUS" /\ WM_SETFOCUS /\ UNCHANGED min_max_info
    \/ m.message = "WM_INPUT" /\ WM_INPUT(m) /\ UNCHANGED min_max_info
    \/ m.message \in ButtonMessages /\ WM_BUTTON(m) /\ UNCHANGED min_max_info
    \/ m.message \in DefaultMessages /\ def_window_proc /\ UNCHANGED min_max_info

(* --------------------------------------------------- Window::poll_events *)

\* Fault variant: the size-changed flag is not cleared at entry.
poll_events_entry_KeepsFlag ==
    /\ pc = "host"
    /\ input' = frame_reset(input)
    /\ frame_resets' = 1
    /\ pc' = "peek"
    /\ poll_result' = "running"
    /\ dispatched' = 0
    /\ quit_seen' = 0
    /\ update_size_calls' = 0
    /\ commits' = 0
    /\ down_edges' = {}
    /\ UNCHANGED <<width, height, h_wnd, constructVars, min_max_info, msg, minimized, in_size_move, window_size_changed,
                   surfaceVars, registryVars, rendering, resize_arg, queue, osVars,
                   dispatched_down, call_log, mouseVars, frameVars, traceVars>>

\* Fault variant: the input model is not reset at entry.
poll_events_entry_NoFrameReset ==
    /\ pc = "host"
    /\ frame_resets' = 0
    /\ window_size_changed' = FALSE
    /\ pc' = "peek"
    /\ poll_result' = "running"
    /\ dispatched' = 0
    /\ quit_seen' = 0
    /\ update_size_calls' = 0
    /\ commits' = 0
    /\ down_edges' = {}
    /\ UNCHANGED <<input, width, height, h_wnd, constructVars, min_max_info, msg, minimized, in_size_move, surfaceVars,
                   registryVars, rendering, resize_arg, queue, osVars, dispatched_down,
                   call_log, mouseVars, frameVars, traceVars>>

\* Entry of poll_events: frame_reset, then the size-changed flag is cleared.
poll_events_entry ==
    /\ pc = "host"
    /\ input' = frame_reset(input)
    /\ frame_resets' = 1
    /\ window_size_changed' = FALSE
    /\ pc' = "peek"
    /\ poll_result' = "running"
    /\ dispatched' = 0
    /\ quit_seen' = 0
    /\ update_size_calls' = 0
    /\ commits' = 0
    /\ down_edges' = {}
    /\ UNCHANGED <<width, height, h_wnd, constructVars, min_max_info, msg, minimized, in_size_move, surfaceVars,
                   registryVars, rendering, resize_arg, queue, osVars, dispatched_down,
                   call_log, mouseVars, frameVars, traceVars>>

\* Fault variant: the drained loop falls through to the quit return.
poll_events_empty_ReturnsFalse ==
    /\ pc = "peek"
    /\ queue = <<>>
    /\ pc' = "host"
    /\ poll_result' = "false"
    /\ UNCHANGED <<winVars, surfaceVars, registryVars, rendering, resize_arg, queue, osVars,
                   frame_resets, dispatched, quit_seen, update_size_calls, commits,
                   down_edges, dispatched_down, call_log, mouseVars, frameVars, traceVars>>

\* peek_message finds the queue empty: the loop ends, poll_events returns true.
poll_events_empty ==
    /\ pc = "peek"
    /\ queue = <<>>
    /\ pc' = "host"
    /\ poll_result' = "true"
    /\ UNCHANGED <<winVars, surfaceVars, registryVars, rendering, resize_arg, queue, osVars,
                   frame_resets, dispatched, quit_seen, update_size_calls, commits,
                   down_edges, dispatched_down, call_log, mouseVars, frameVars, traceVars>>

\* peek_message removes WM_QUIT: poll_events returns false.
poll_events_quit ==
    /\ pc = "peek"
    /\ queue # <<>>
    /\ Head(queue).message = "WM_QUIT"
    /\ msg' = Head(queue)
    /\ queue' = Tail(queue)
    /\ pc' = "host"
    /\ poll_result' = "false"
    /\ quit_seen' = quit_seen + 1
    /\ NoInputCall
    /\ UNCHANGED <<input, width, height, h_wnd, constructVars, min_max_info, minimized, in_size_move, window_size_changed,
                   surfaceVars, registryVars, rendering, resize_arg, osVars,
                   frame_resets, dispatched, update_size_calls, commits, down_edges,
                   dispatched_down, call_log, mouseVars, frameVars, decoded, updater_calls,
                   returned_keys, removed_keys, selected>>

\* peek_message removes another message: dispatch_message calls wnd_proc.
poll_events_dispatch ==
    /\ pc = "peek"
    /\ queue # <<>>
    /\ Head(queue).message # "WM_QUIT"
    /\ msg' = Head(queue)
    /\ wnd_proc(Head(queue))
    /\ dispatched' = IF dispatched < MaxDispatched THEN dispatched + 1 ELSE dispatched
    /\ UNCHANGED <<h_wnd, constructVars, surfaceVars, registryVars, rendering, winSize, osMinimized,
                   osSizeMove, keysDown, events, poll_result, frame_resets, quit_seen,
                   winPos, frameVars, updater_calls, returned_keys, removed_keys, selected>>

(* ------------------------------------------ Graphics::resize_swap_chain *)

\* One device call of resize_swap_chain: control moves on and the call is logged.
ResizeStep(from, to, call) ==
    /\ pc = from
    /\ pc' = to
    /\ call_log' = Append(call_log, call)
    /\ UNCHANGED <<winVars, registryVars, rendering, resize_arg, queue, osVars,
                   poll_result, frame_resets, dispatched, quit_seen, update_size_calls,
                   commits, down_edges, dispatched_down, mouseVars, frameVars, traceVars>>

\* Fault variant: a failed device call makes resize_swap_chain return to
\* update_size, as if its error were handed back instead of unwrapped.
ResizePanics_Returns(from) ==
    /\ pc = from
    /\ pc' = "update_viewports"
    /\ UNCHANGED <<winVars, surfaceVars, registryVars, rendering, resize_arg, queue, osVars,
                   historyVars, mouseVars, frameVars, traceVars>>

\* A failed device call under unwrap(): the thread panics, nothing returns.
ResizePanics(from) ==
    /\ pc = from
    /\ pc' = "panicked"
    /\ UNCHANGED <<winVars, surfaceVars, registryVars, rendering, resize_arg, queue, osVars,
                   historyVars, mouseVars, frameVars, traceVars>>


\* RefCell::borrow_mut on the cell of the device context: it hands out the one
\* mutable borrow, or fails (BorrowMutError, a panic) when one is out.
borrow_mut(cell) == IF cell = "unborrowed" THEN "borrowed" ELSE "BorrowMutError"

\* The RefMut guard goes out of scope: the borrow is returned to the cell.
drop_RefMut(cell) == IF cell = "borrowed" THEN "unborrowed" ELSE cell

\* The cell after a run of borrow_mut and drop steps, in program order.
RECURSIVE Borrows(_, _)
Borrows(cell, steps) ==
    IF steps = <<>> THEN cell
    ELSE Borrows(IF Head(steps) = "borrow_mut" THEN borrow_mut(cell) ELSE drop_RefMut(cell),
                 Tail(steps))

\* let mut device_context = self.device_context.borrow_mut(): the guard is a
\* local of resize_swap_chain, taken before the first call and dropped when
\* the function returns.
\* device_context.om_set_render_targets(&mut [None], None)
rsc_om_set_render_targets ==
    /\ ResizeStep("om_set_render_targets", "drop_render_target_view", "om_set_render_targets")
    /\ device_context' = borrow_mut(device_context)
    /\ om_bound' = FALSE
    /\ UNCHANGED <<swap_chain, render_target_view, depth_stencil_buffer, depth_stencil_view,
                   rs_viewport>>

\* Fault variant: the render-target view is not released before the buffers are resized.
rsc_drop_render_target_view_Keeps ==
    /\ pc = "drop_render_target_view"
    /\ pc' = "drop_depth_stencil_view"
    /\ UNCHANGED <<winVars, surfaceVars, registryVars, rendering, resize_arg, queue, osVars,
                   historyVars, mouseVars, frameVars, traceVars>>

\* drop(self.render_target_view.take())
rsc_drop_render_target_view ==
    /\ ResizeStep("drop_render_target_view", "drop_depth_stencil_view", "drop_render_target_view")
    /\ render_target_view' = None
    /\ UNCHANGED <<swap_chain, depth_stencil_buffer, depth_stencil_view, om_bound, rs_viewport,
                   device_context>>

\* Fault variant: the depth-stencil view is kept across the buffer resize.
rsc_drop_depth_stencil_view_Keeps ==
    /\ ResizeStep("drop_depth_stencil_view", "flush", "drop_depth_stencil_view")
    /\ UNCHANGED surfaceVars

\* drop(self.depth_stencil_view.take())
rsc_drop_depth_stencil_view ==
    /\ ResizeStep("drop_depth_stencil_view", "flush", "drop_depth_stencil_view")
    /\ depth_stencil_view' = None
    /\ UNCHANGED <<swap_chain, render_target_view, depth_stencil_buffer, om_bound, rs_viewport,
                   device_context>>

\* device_context.flush()
rsc_flush ==
    /\ ResizeStep("flush", "resize_buffers", "flush")
    /\ UNCHANGED surfaceVars

\* self.swap_chain.resize_buffers(NUM_BUFFERS, width, height, ..).unwrap()
rsc_resize_buffers ==
    \/ /\ ResizeStep("resize_buffers", "create_render_target_view", "resize_buffers")
       /\ swap_chain' = resize_arg
       /\ UNCHANGED <<render_target_view, depth_stencil_buffer, depth_stencil_view, om_bound,
                      rs_viewport, device_context>>
    \/ ResizePanics("resize_buffers")

\* self.render_target_view = Some(create_render_target_view(..).unwrap()):
\* a view of back buffer 0 of the swap chain.
rsc_create_render_target_view ==
    \/ /\ ResizeStep("create_render_target_view", "create_depth_stencil_view",
                     "create_render_target_view")
       /\ render_target_view' = swap_chain
       /\ UNCHANGED <<swap_chain, depth_stencil_buffer, depth_stencil_view, om_bound,
                      rs_viewport, device_context>>
    \/ ResizePanics("create_render_target_view")

\* (self.depth_stencil_buffer, self.depth_stencil_view) =
\*     create_depth_stencil_view(&self.device, width, height)...unwrap()
rsc_create_depth_stencil_view ==
    \/ /\ ResizeStep("create_depth_stencil_view", "rs_set_viewports",
                     "create_depth_stencil_view")
       /\ depth_stencil_buffer' = resize_arg
       /\ depth_stencil_view' = resize_arg
       /\ UNCHANGED <<swap_chain, render_target_view, om_bound, rs_viewport, device_context>>
    \/ ResizePanics("create_depth_stencil_view")

\* device_context.rs_set_viewports(&[&viewport]); resize_swap_chain returns
\* into update_size, which goes on to update_viewports.
rsc_rs_set_viewports ==
    /\ ResizeStep("rs_set_viewports", "update_viewports", "rs_set_viewports")
    /\ rs_viewport' = <<<<0, 0>>, resize_arg>>
    /\ device_context' = drop_RefMut(device_context)
    /\ UNCHANGED <<swap_chain, render_target_view, depth_stencil_buffer, depth_stencil_view,
                   om_bound>>

(* ------------------------------------------------------ viewport registry *)

\* The host's ViewportUpdater::update_viewport(new_size) -> (top_left, size).
update_viewport(updater, new_size) ==
    IF updater = "Full"
    THEN <<<<0, 0>>, new_size>>
    ELSE <<<<0, 0>>, <<new_size[1] \div 2, new_size[2]>>>>

\* Viewport::new
NewViewport(top_left, size, updater, key) ==
    [key |-> key, top_left |-> top_left, size |-> size, updater |-> updater]

\* Viewport::update
ViewportUpdate(v, top_left, size) == [v EXCEPT !.top_left = top_left, !.size = size]

\* The viewports that have a resize policy, in registry order.
WithUpdater(vs) == SelectSeq(vs, LAMBDA v : v.updater # "None")

\* The borrows of the policy calls of update_viewports: a policy is host code
\* that may hold a clone of the device context (Window::device_context) and
\* use it; the guard it takes is gone when update_viewport returns.
RECURSIVE updater_borrows(_)
updater_borrows(vs) ==
    IF vs = <<>> THEN <<>> ELSE <<"borrow_mut", "drop">> \o updater_borrows(Tail(vs))

\* Fault variant: the rect of a viewport without a policy is recomputed as well.
update_viewports_UpdatesFixed ==
    /\ pc = "update_viewports"
    /\ LET new_size == <<width, height>>
       IN  /\ viewports' = [i \in 1..Len(viewports) |->
                  ViewportUpdate(viewports[i], <<0, 0>>, new_size)]
           /\ updater_calls' = [i \in 1..Len(WithUpdater(viewports)) |->
                  <<WithUpdater(viewports)[i].key, new_size>>]
    /\ pc' = "peek"
    /\ device_context' = Borrows(device_context, updater_borrows(WithUpdater(viewports)))
    /\ UNCHANGED <<winVars, swap_chain, render_target_view, depth_stencil_buffer,
                   depth_stencil_view, om_bound, rs_viewport, new_viewport_key,
                   default_viewport, rendering, resize_arg, queue, osVars, historyVars,
                   mouseVars, frameVars, decoded, returned_keys, removed_keys, selected,
                   input_calls>>

\* Graphics::update_viewports, called by update_size after the resize.
update_viewports ==
    /\ pc = "update_viewports"
    /\ LET new_size == <<width, height>>
       IN  /\ viewports' = [i \in 1..Len(viewports) |->
                  IF viewports[i].updater = "None"
                  THEN viewports[i]
                  ELSE LET r == update_viewport(viewports[i].updater, new_size)
                       IN  ViewportUpdate(viewports[i], r[1], r[2])]
           /\ updater_calls' = [i \in 1..Len(WithUpdater(viewports)) |->
                  <<WithUpdater(viewports)[i].key, new_size>>]
    /\ pc' = "peek"
    /\ device_context' = Borrows(device_context, updater_borrows(WithUpdater(viewports)))
    /\ UNCHANGED <<winVars, swap_chain, render_target_view, depth_stencil_buffer,
                   depth_stencil_view, om_bound, rs_viewport, new_viewport_key,
                   default_viewport, rendering, resize_arg, queue, osVars, historyVars,
                   mouseVars, frameVars, decoded, returned_keys, removed_keys, selected,
                   input_calls>>

\* Graphics::get_viewport: the index of the first viewport with the key, 0 for none.
get_viewport(viewport_key) ==
    LET hits == {i \in 1..Len(viewports) : viewports[i].key = viewport_key}
    IN  IF hits = {} THEN 0 ELSE CHOOSE i \in hits : \A j \in hits : i <= j

\* What a host call leaves alone besides the registry and the device context.
HostCallFrame ==
    UNCHANGED <<winVars, swap_chain, render_target_view, depth_stencil_buffer,
                depth_stencil_view, om_bound, rendering, resize_arg, queue, winSize,
                osMinimized, osSizeMove, keysDown, destroyed, historyVars, mouseVars,
                frameVars, decoded, updater_calls, input_calls>>

\* Fault variant: the key of a removed viewport is handed out again.
create_viewport_ReusesKey(top_left, size, updater) ==
    /\ pc = "host"
    /\ LET key == Len(viewports)
       IN  /\ new_viewport_key' = new_viewport_key + 1
           /\ viewports' = Append(viewports, NewViewport(top_left, size, updater, key))
           /\ returned_keys' = Append(returned_keys, key)
    /\ HostCallFrame
    /\ UNCHANGED <<default_viewport, rs_viewport, device_context, pc, removed_keys, selected>>

\* Window::create_viewport -> Graphics::create_viewport
create_viewport(top_left, size, updater) ==
    /\ pc = "host"
    /\ LET key == new_viewport_key
       IN  /\ new_viewport_key' = new_viewport_key + 1
           /\ viewports' = Append(viewports, NewViewport(top_left, size, updater, key))
           /\ returned_keys' = Append(returned_keys, key)
    /\ HostCallFrame
    /\ UNCHANGED <<default_viewport, rs_viewport, device_context, pc, removed_keys, selected>>

\* Fault variant: the viewport with the key and every later one are dropped.
remove_viewport_Truncates(viewport_key) ==
    /\ pc = "host"
    /\ LET i == get_viewport(viewport_key)
       IN  /\ viewports' = IF i = 0 THEN viewports ELSE SubSeq(viewports, 1, i - 1)
           /\ removed_keys' = IF i = 0 THEN removed_keys ELSE removed_keys \cup {viewport_key}
    /\ HostCallFrame
    /\ UNCHANGED <<new_viewport_key, default_viewport, rs_viewport, device_context, pc, returned_keys,
                   selected>>

\* Window::remove_viewport -> Graphics::remove_viewport; removed_keys records
\* the keys of the viewports it deleted.
remove_viewport(viewport_key) ==
    /\ pc = "host"
    /\ viewports' = SelectSeq(viewports, LAMBDA viewport : viewport.key # viewport_key)
    /\ removed_keys' = IF get_viewport(viewport_key) = 0 THEN removed_keys
                       ELSE removed_keys \cup {viewport_key}
    /\ HostCallFrame
    /\ UNCHANGED <<new_viewport_key, default_viewport, rs_viewport, device_context, pc, returned_keys,
                   selected>>

\* Window::set_default_viewport -> Graphics::set_default_viewport
set_default_viewport(viewport) ==
    /\ pc = "host"
    /\ default_viewport' = viewport
    /\ HostCallFrame
    /\ UNCHANGED <<viewports, new_viewport_key, rs_viewport, device_context, pc, returned_keys, removed_keys,
                   selected>>

\* Viewport::set_active: rs_set_viewports with the rect of viewport i.
set_active(i) == rs_viewport' = <<viewports[i].top_left, viewports[i].size>>

\* self.device_context.borrow_mut().rs_set_viewports(..) in Viewport::set_active:
\* the guard is a temporary, dropped at the end of the statement.
set_active_borrows == <<"borrow_mut", "drop">>

\* Fault variant: a key that is not registered binds the first viewport.
set_active_viewport_BindsFirst(viewport) ==
    /\ pc = "host"
    /\ LET i == get_viewport(viewport)
       IN  IF i = 0
           THEN IF viewports = <<>> THEN UNCHANGED rs_viewport ELSE set_active(1)
           ELSE set_active(i)
    /\ device_context' = IF viewports = <<>> THEN device_context
                         ELSE Borrows(device_context, set_active_borrows)
    /\ selected' = viewport
    /\ HostCallFrame
    /\ UNCHANGED <<registryVars, pc, returned_keys, removed_keys>>

\* Window::set_active_viewport: get_viewport(viewport).map(set_active)
set_active_viewport(viewport) ==
    /\ pc = "host"
    /\ LET i == get_viewport(viewport)
       IN  IF i = 0
           THEN UNCHANGED <<rs_viewport, device_context>>
           ELSE /\ set_active(i)
                /\ device_context' = Borrows(device_context, set_active_borrows)
    /\ selected' = viewport
    /\ HostCallFrame
    /\ UNCHANGED <<registryVars, pc, returned_keys, removed_keys>>

\* Fault variant: the rect is given to every registered viewport.
Window_update_viewport_MovesAll(viewport, top_left, size) ==
    /\ pc = "host"
    /\ LET i == get_viewport(viewport)
       IN  IF i = 0
           THEN pc' = "panicked" /\ UNCHANGED viewports
           ELSE /\ viewports' = [n \in 1..Len(viewports) |->
                                    ViewportUpdate(viewports[n], top_left, size)]
                /\ pc' = pc
    /\ HostCallFrame
    /\ UNCHANGED <<new_viewport_key, default_viewport, rs_viewport, device_context, returned_keys,
                   removed_keys, selected>>

\* Window::update_viewport: get_viewport(viewport).unwrap().update(top_left, size)
Window_update_viewport(viewport, top_left, size) ==
    /\ pc = "host"
    /\ LET i == get_viewport(viewport)
       IN  IF i = 0
           THEN pc' = "panicked" /\ UNCHANGED viewports
           ELSE /\ viewports' = [viewports EXCEPT ![i] = ViewportUpdate(@, top_left, size)]
                /\ pc' = pc
    /\ HostCallFrame
    /\ UNCHANGED <<new_viewport_key, default_viewport, rs_viewport, device_context, returned_keys,
                   removed_keys, selected>>

(* ------------------------------------------------------------- rendering *)

\* What a frame call leaves alone.
FrameCallFrame ==
    UNCHANGED <<winVars, swap_chain, render_target_view, depth_stencil_buffer,
                depth_stencil_view, registryVars, resize_arg, queue, osVars, historyVars,
                mouseVars, debug_logging, decoded, updater_calls, returned_keys,
                removed_keys, input_calls>>

\* Fault variant: the guard of Graphics::begin_render outlives the call.
begin_render_borrows_Kept == <<"borrow_mut">>

\* let mut device_context = self.device_context.borrow_mut() in
\* Graphics::begin_render: the guard is a local, dropped when the function
\* returns, before Window::begin_render goes on to set_active_viewport.
begin_render_borrows == <<"borrow_mut", "drop">>

\* self.device_context.borrow_mut().om_set_render_targets(..) in
\* Graphics::end_render: the guard is a temporary, dropped before present.
end_render_borrows == <<"borrow_mut", "drop">>

\* Fault variant: the frame begins without the default viewport being bound.
begin_render_KeepsViewport ==
    /\ pc = "host"
    /\ rendering' = TRUE
    /\ begins' = IF begins < MaxBegins THEN begins + 1 ELSE begins
    /\ end_result' = "none"
    /\ presents' = <<>>
    /\ IF render_target_view = None \/ depth_stencil_view = None
       THEN pc' = "panicked" /\ UNCHANGED <<om_bound, device_context>>
       ELSE /\ om_bound' = TRUE
            /\ device_context' = Borrows(device_context, begin_render_borrows)
            /\ pc' = pc
    /\ FrameCallFrame
    /\ UNCHANGED <<info_queue, rs_viewport, selected>>

\* Window::begin_render: Graphics::begin_render, then the default viewport.
\* begins counts the calls since the last end_render call.
begin_render ==
    /\ pc = "host"
    /\ rendering' = TRUE
    /\ begins' = IF begins < MaxBegins THEN begins + 1 ELSE begins
    /\ end_result' = "none"
    /\ presents' = <<>>
    /\ IF render_target_view = None \/ depth_stencil_view = None
       THEN pc' = "panicked" /\ UNCHANGED <<om_bound, rs_viewport, device_context, selected>>
       ELSE /\ om_bound' = TRUE
            /\ selected' = default_viewport
            /\ LET i == get_viewport(default_viewport)
               IN  IF i = 0
                   THEN /\ UNCHANGED rs_viewport
                        /\ device_context' = Borrows(device_context, begin_render_borrows)
                   ELSE /\ set_active(i)
                        /\ device_context' = Borrows(device_context,
                               begin_render_borrows \o set_active_borrows)
            /\ pc' = pc
    /\ FrameCallFrame
    /\ UNCHANGED info_queue

\* The debug block of Graphics::end_render (debug builds): every stored message
\* is read and printed, then the queue is cleared; reading message fail_at
\* fails (0: none does), and the error is returned by the ? operator.
end_render_debug(fail_at) ==
    IF debug_logging
    THEN IF fail_at > 0
         THEN end_result' = "MessageError" /\ UNCHANGED info_queue
         ELSE end_result' = "Ok" /\ info_queue' = 0
    ELSE end_result' = "Ok" /\ UNCHANGED info_queue

\* Window::end_render -> Graphics::end_render; present(1, 0) may fail, and the
\* ? operator then returns before the flag is cleared.
end_render(present_ok, fail_at) ==
    /\ pc = "host"
    /\ fail_at \in 0..(IF debug_logging THEN info_queue ELSE 0)
    /\ begins' = 0
    /\ IF rendering
       THEN /\ om_bound' = FALSE
            /\ device_context' = Borrows(device_context, end_render_borrows)
            /\ presents' = <<[sync_interval |-> 1, ok |-> present_ok]>>
            /\ IF present_ok
               THEN rendering' = FALSE /\ end_render_debug(fail_at)
               ELSE /\ end_result' = "PresentError"
                    /\ UNCHANGED <<rendering, info_queue>>
       ELSE /\ presents' = <<>>
            /\ end_render_debug(fail_at)
            /\ UNCHANGED <<om_bound, device_context, rendering>>
    /\ FrameCallFrame
    /\ UNCHANGED <<rs_viewport, pc, selected>>

\* Window::set_debug_logging
set_debug_logging(enable) ==
    /\ pc = "host"
    /\ debug_logging' = enable
    /\ UNCHANGED <<winVars, surfaceVars, registryVars, rendering, pc, resize_arg, queue,
                   osVars, historyVars, mouseVars, info_queue, end_result, presents, begins,
                   traceVars>>

\* The device stores a diagnostic message about a call it was given.
DeviceStoresMessage ==
    /\ pc = "host"
    /\ info_queue < MaxMessages
    /\ info_queue' = info_queue + 1
    /\ UNCHANGED <<winVars, surfaceVars, registryVars, rendering, pc, resize_arg, queue,
                   osVars, historyVars, mouseVars, debug_logging, end_result, presents,
                   begins, traceVars>>

\* The host locks or unlocks the mouse through input_mut().
host_set_mouse_lock(lock) ==
    /\ pc = "host"
    /\ input' = set_mouse_lock(input, lock)
    /\ UNCHANGED <<width, height, h_wnd, constructVars, min_max_info, msg, minimized, in_size_move, window_size_changed,
                   surfaceVars, registryVars, rendering, pc, resize_arg, queue, osVars,
                   historyVars, mouseVars, frameVars, traceVars>>

(* ------------------------------------------------------------------ Next *)

Next ==
    \/ OsEvent
    \/ poll_events_entry
    \/ poll_events_empty
    \/ poll_events_quit
    \/ poll_events_dispatch
    \/ rsc_om_set_render_targets
    \/ rsc_drop_render_target_view
    \/ rsc_drop_depth_stencil_view
    \/ rsc_flush
    \/ rsc_resize_buffers
    \/ rsc_create_render_target_view
    \/ rsc_create_depth_stencil_view
    \/ rsc_rs_set_viewports
    \/ update_viewports
    \/ \E r \in HostRects, u \in Updaters :
          events < MaxEvents /\ events' = events + 1 /\ create_viewport(r[1], r[2], u)
    \/ begin_render
    \/ \E present_ok \in BOOLEAN, fail_at \in 0..MaxMessages : end_render(present_ok, fail_at)

Spec == Init /\ [][Next]_vars

(* ------------------------------------------- the host interface: registry *)

\* The keys the host passes to the registry: every key create_viewport can
\* return, and one it never returns.
HostKeys == 0..MaxKeys

\* The host creates, removes, selects and moves viewports; no message arrives.
RegistryNext ==
    \/ \E r \in HostRects, u \in Updaters :
          new_viewport_key < MaxKeys /\ create_viewport(r[1], r[2], u) /\ UNCHANGED events
    \/ \E k \in HostKeys : remove_viewport(k) /\ UNCHANGED events
    \/ \E k \in HostKeys : set_active_viewport(k) /\ UNCHANGED events
    \/ \E k \in HostKeys, r \in HostUpdateRects :
          Window_update_viewport(k, r[1], r[2]) /\ UNCHANGED events

RegistrySpec == Init /\ [][RegistryNext]_vars

(* --------------------------------------------- the host interface: frames *)

\* The host renders frames, switches the diagnostics, creates viewports and
\* chooses the default one; the device stores diagnostic messages.
FrameNext ==
    \/ begin_render
    \/ \E present_ok \in BOOLEAN, fail_at \in 0..MaxMessages : end_render(present_ok, fail_at)
    \/ \E enable \in BOOLEAN : set_debug_logging(enable)
    \/ DeviceStoresMessage
    \/ \E r \in HostRects, u \in Updaters :
          new_viewport_key < MaxKeys /\ create_viewport(r[1], r[2], u) /\ UNCHANGED events
    \/ \E k \in HostKeys : set_default_viewport(k) /\ UNCHANGED events

FrameSpec == Init /\ [][FrameNext]_vars

(* ----------------------------------- the host interface: viewports in frames *)

\* The host creates viewports with different rects, chooses the default one,
\* renders frames and selects viewports inside them.
ViewportFrameNext ==
    \/ begin_render
    \/ \E present_ok \in BOOLEAN : end_render(present_ok, 0)
    \/ \E r \in HostRects \cup HostUpdateRects :
          new_viewport_key < MaxKeys /\ create_viewport(r[1], r[2], "None") /\ UNCHANGED events
    \/ \E k \in HostKeys : set_default_viewport(k) /\ UNCHANGED events
    \/ \E k \in HostKeys : set_active_viewport(k) /\ UNCHANGED events

ViewportFrameSpec == Init /\ [][ViewportFrameNext]_vars

(* ------------------------------------------- the host interface: layout *)

\* The user resizes the window.
OsResizeEvent ==
    /\ \E s \in WindowRects : OsResize(s)
    /\ UNCHANGED <<winVars, surfaceVars, registryVars, rendering, pc, resize_arg, historyVars,
                   mouseVars, frameVars, traceVars>>

\* The user resizes the window and the host polls, so that committed resizes
\* lay the viewports out, while the host creates, removes, selects and moves
\* viewports between two polls.
LayoutNext ==
    \/ OsResizeEvent
    \/ poll_events_entry
    \/ poll_events_empty
    \/ poll_events_dispatch
    \/ rsc_om_set_render_targets
    \/ rsc_drop_render_target_view
    \/ rsc_drop_depth_stencil_view
    \/ rsc_flush
    \/ rsc_resize_buffers
    \/ rsc_create_render_target_view
    \/ rsc_create_depth_stencil_view
    \/ rsc_rs_set_viewports
    \/ update_viewports
    \/ \E r \in HostRects, u \in Updaters :
          events < MaxEvents /\ events' = events + 1 /\ create_viewport(r[1], r[2], u)
    \/ \E k \in HostKeys : remove_viewport(k) /\ UNCHANGED events
    \/ \E k \in HostKeys : set_active_viewport(k) /\ UNCHANGED events
    \/ \E k \in HostKeys, r \in HostUpdateRects :
          Window_update_viewport(k, r[1], r[2]) /\ UNCHANGED events

LayoutSpec == Init /\ [][LayoutNext]_vars

(* --------------------------------------------- the cursor center: moves *)

\* The window gets size s: the platform tells the window procedure that the
\* window rectangle changed and then sends the size notification.
OsSizeWindow(s) ==
    /\ OsCanPost /\ ~osMinimized
    /\ winSize' = s
    /\ queue' = queue \o <<Msg("WM_WINDOWPOSCHANGED", "0", NoRaw),
                           Msg("WM_SIZE", "SIZE_RESTORED", NoRaw)>>
    /\ events' = events + 1
    /\ UNCHANGED <<winVars, surfaceVars, registryVars, rendering, pc, resize_arg, historyVars,
                   osMinimized, osSizeMove, keysDown, destroyed, mouseVars, frameVars,
                   traceVars>>

\* The user presses and releases the mouse on the caption or on an edge.
OsGestureEvent ==
    /\ OsEnterSizeMove \/ OsExitSizeMove
    /\ UNCHANGED <<winVars, surfaceVars, registryVars, rendering, pc, resize_arg, historyVars,
                   mouseVars, frameVars, traceVars>>

\* The user moves and resizes the window and moves the mouse, the host locks
\* and unlocks the mouse and polls.
CenterNext ==
    \/ OsMouseEvent
    \/ \E s \in WindowRects : OsSizeWindow(s)
    \/ OsGestureEvent
    \/ \E lock \in BOOLEAN : host_set_mouse_lock(lock)
    \/ poll_events_entry
    \/ poll_events_empty
    \/ poll_events_dispatch
    \/ reset_mouse_position
    \/ rsc_om_set_render_targets
    \/ rsc_drop_render_target_view
    \/ rsc_drop_depth_stencil_view
    \/ rsc_flush
    \/ rsc_resize_buffers
    \/ rsc_create_render_target_view
    \/ rsc_create_depth_stencil_view
    \/ rsc_rs_set_viewports
    \/ update_viewports

CenterSpec == Init /\ [][CenterNext]_vars

(* ------------------------------------------------------- pointer messages *)

\* The client-area coordinates a mouse message can carry: the ends of the
\* 16-bit range, points left of and above the client area (a captured mouse),
\* and points inside it.
PointerCoords == {-32768, -1, 0, 7, 412, 32767}

\* What the platform leaves in the upper half of l_param.
PointerHighs == {0, -1}

\* The mouse is at client-area point (x, y); it is the last thing the user does.
OsPointerMove(x, y, high) ==
    /\ OsCanPost /\ events = MaxEvents - 1
    /\ cursor' = client_to_screen(winPos, x, y)
    /\ queue' = Append(queue, [message |-> "WM_MOUSEMOVE", w_param |-> "0", raw |-> NoRaw,
                               l_param |-> PackLParam(x, y, high)])
    /\ events' = events + 1
    /\ UNCHANGED <<winVars, surfaceVars, registryVars, rendering, pc, resize_arg, historyVars,
                   winSize, osMinimized, osSizeMove, keysDown, destroyed, winPos,
                   mouse_center, update_mouse_center, warps, frameVars, traceVars>>

\* The user resizes the window and then moves the mouse; the host polls.
PointerNext ==
    \/ OsResizeEvent
    \/ \E x, y \in PointerCoords, high \in PointerHighs : OsPointerMove(x, y, high)
    \/ poll_events_entry
    \/ poll_events_empty
    \/ poll_events_dispatch
    \/ rsc_om_set_render_targets
    \/ rsc_drop_render_target_view
    \/ rsc_drop_depth_stencil_view
    \/ rsc_flush
    \/ rsc_resize_buffers
    \/ rsc_create_render_target_view
    \/ rsc_create_depth_stencil_view
    \/ rsc_rs_set_viewports
    \/ update_viewports

PointerSpec == Init /\ [][PointerNext]_vars

(* ---------------------------------------------------------- input events *)

\* The user presses or releases a mouse button.
OsButton(message) ==
    /\ OsCanPost
    /\ Post(Msg(message, "0", NoRaw))
    /\ UNCHANGED <<winSize, osMinimized, osSizeMove, keysDown, destroyed>>

\* A device that is not a keyboard sends raw input.
OsRawOther ==
    /\ OsCanPost
    /\ Post(Msg("WM_INPUT", "0", RawOther))
    /\ UNCHANGED <<winSize, osMinimized, osSizeMove, keysDown, destroyed>>

OsInputEvent ==
    /\ \/ \E message \in ButtonMessages : OsButton(message)
       \/ \E k \in RawKeys : OsKeyDown(k)
       \/ \E k \in RawKeys : OsKeyUp(k)
       \/ OsRawOther
    /\ UNCHANGED <<winVars, surfaceVars, registryVars, rendering, pc, resize_arg, historyVars,
                   mouseVars, frameVars, traceVars>>

\* The user uses the keyboard and the mouse; the host polls.
InputNext ==
    \/ OsInputEvent
    \/ OsMouseEvent
    \/ poll_events_entry
    \/ poll_events_empty
    \/ poll_events_dispatch

InputSpec == Init /\ [][InputNext]_vars

(* ------------------------------------------------------------ key decoding *)

\* The keyboard sends one raw record, any make code with any flags.
OsRawInput(raw) ==
    /\ OsCanPost /\ events = 0
    /\ Post(Msg("WM_INPUT", "0", raw))
    /\ UNCHANGED <<winVars, surfaceVars, registryVars, rendering, pc, resize_arg, historyVars,
                   winSize, osMinimized, osSizeMove, keysDown, destroyed,
                   mouseVars, frameVars, traceVars>>

DecodeNext ==
    \/ \E raw \in AllRawKeys : OsRawInput(raw)
    \/ poll_events_entry
    \/ poll_events_dispatch
    \/ poll_events_empty

DecodeSpec == Init /\ [][DecodeNext]_vars

(* ------------------------------------------------- the drain loop, mouse *)

OsCloseEvent ==
    /\ OsClose
    /\ UNCHANGED <<winVars, surfaceVars, registryVars, rendering, pc, resize_arg, historyVars,
                   mouseVars, frameVars, traceVars>>

\* The user moves the mouse and the window and closes it, the host locks and
\* unlocks the mouse and polls.
MouseNext ==
    \/ OsMouseEvent
    \/ OsCloseEvent
    \/ \E lock \in BOOLEAN : host_set_mouse_lock(lock)
    \/ poll_events_entry
    \/ poll_events_empty
    \/ poll_events_quit
    \/ poll_events_dispatch
    \/ reset_mouse_position

\* The thread runs: a step of the drain loop that can be taken is taken.
MouseSpec ==
    /\ Init
    /\ [][MouseNext]_vars
    /\ WF_vars(poll_events_empty)
    /\ WF_vars(poll_events_quit)
    /\ WF_vars(poll_events_dispatch)
    /\ WF_vars(reset_mouse_position)

(* ================================================================ claims *)

\* The current step removes the head of the queue and hands it to wnd_proc.
DispatchStep == pc = "peek" /\ queue # <<>> /\ dispatched' = dispatched + 1

\* The message at the head of the queue makes wnd_proc call update_size.
HeadCallsUpdateSize ==
    /\ queue # <<>>
    /\ \/ /\ Head(queue).message = "WM_SIZE"
          /\ Head(queue).w_param # "SIZE_MINIMIZED"
          /\ ~minimized
       \/ Head(queue).message = "WM_EXITSIZEMOVE"

\* Control is with the host loop or between two messages of the drain loop.
AtRest == pc \in {"host", "peek"}

(* C1: gesture batching. Between the dispatch of WM_ENTERSIZEMOVE and the
   dispatch of WM_EXITSIZEMOVE no render-surface resize runs, whatever size
   notifications arrive in between; the resize happens at the gesture end. *)
C1_GestureBatching ==
    in_size_move => pc \notin (ResizePcs \cup {"update_viewports"})

(* C2: idempotent commit. When update_size runs and reads the stored size it
   changes no state and calls neither resize_swap_chain nor update_viewports;
   when the size read differs it stores exactly that size and resizes to it,
   so a repeated notification for the same size finds nothing to do. *)
C2_IdempotentCommit ==
    [][(DispatchStep /\ HeadCallsUpdateSize) =>
          IF get_window_rect = <<width, height>>
          THEN /\ pc' = "peek"
               /\ UNCHANGED <<width, height, window_size_changed, surfaceVars, registryVars,
                              resize_arg, commits, call_log>>
          ELSE /\ pc' = "om_set_render_targets"
               /\ <<width', height'>> = get_window_rect
               /\ resize_arg' = get_window_rect]_vars

\* Two update_size calls in one poll cycle, only one of them a commit.
C2_Witness ==
    /\ pc = "peek"
    /\ update_size_calls = 2
    /\ commits = 1
    /\ <<width, height>> = winSize
    /\ swap_chain = winSize

(* C3: minimize does not resize. A WM_SIZE with SIZE_MINIMIZED only sets
   minimized; the first other WM_SIZE received while minimized only clears
   it; neither calls update_size nor touches the render surface. *)
C3_MinimizeDoesNotResize ==
    [][(DispatchStep /\ Head(queue).message = "WM_SIZE"
          /\ (Head(queue).w_param = "SIZE_MINIMIZED" \/ minimized)) =>
          /\ minimized' = (Head(queue).w_param = "SIZE_MINIMIZED")
          /\ pc' = "peek"
          /\ UNCHANGED <<input, width, height, in_size_move, window_size_changed, surfaceVars,
                         registryVars, resize_arg, update_size_calls, commits,
                         call_log>>]_vars

\* Minimized and restored within one poll cycle: the restoring notification
\* was dispatched, update_size was not called, the surface is as constructed.
C3_Witness ==
    /\ pc = "peek"
    /\ dispatched >= 2
    /\ msg.message = "WM_SIZE"
    /\ msg.w_param # "SIZE_MINIMIZED"
    /\ ~minimized
    /\ update_size_calls = 0
    /\ swap_chain = InitClientSize

(* C4: size synchronization. Whenever control is with the host (or between
   two messages of the drain loop) the swap-chain buffers, the render-target
   view, the depth-stencil buffer and its view all have the stored
   width x height; and the relayout of a commit leaves every viewport with a
   full-window policy at rect size (width, height). *)
C4_SizeSynchronization ==
    /\ [](AtRest =>
            /\ swap_chain = <<width, height>>
            /\ render_target_view = <<width, height>>
            /\ depth_stencil_buffer = <<width, height>>
            /\ depth_stencil_view = <<width, height>>)
    /\ [][(pc = "update_viewports" /\ pc' = "peek") =>
            \A i \in 1..Len(viewports') :
                viewports'[i].updater = "Full" =>
                    /\ viewports'[i].size = <<width', height'>>
                    /\ viewports'[i].key = viewports[i].key]_vars

\* Back with the host after a commit that resized a full-window viewport.
C4_Witness ==
    /\ pc = "host"
    /\ commits > 0
    /\ swap_chain # InitClientSize
    /\ \E i \in 1..Len(viewports) :
          viewports[i].updater = "Full" /\ viewports[i].size = <<width, height>>

(* C5: poll_events returns false if and only if it dequeued WM_QUIT in that
   call, and a call that dequeues no WM_QUIT returns true. *)
C5_PollResult ==
    /\ poll_result = "false" <=> quit_seen = 1
    /\ poll_result = "true" => quit_seen = 0
    /\ quit_seen \in {0, 1}
    /\ pc = "host" => poll_result \in {"none", "true", "false"}

\* A poll_events call has returned false after dequeuing the quit message.
C5_Witness == pc = "host" /\ poll_result = "false" /\ quit_seen = 1 /\ destroyed

(* C6: size_changed() is true exactly from a commit to the entry of the next
   poll_events: it is true if and only if a commit has changed the stored
   size since the last poll_events call began. *)
C6_SizeChangedOneCycle ==
    /\ window_size_changed <=> commits > 0
    /\ (poll_result = "running" /\ dispatched = 0) => ~window_size_changed

\* The flag is still set after poll_events has returned to the host.
C6_Witness == pc = "host" /\ poll_result = "true" /\ window_size_changed

(* C7: every poll_events call invokes frame_reset exactly once, before any
   message of that call is dispatched: no dispatch happens with the reset
   outstanding, and at the first peek both transition sets are empty. *)
C7_FrameResetFirst ==
    /\ poll_result # "none" => frame_resets = 1
    /\ dispatched > 0 => frame_resets = 1
    /\ (poll_result = "running" /\ dispatched = 0) =>
          input.keys_pressed = {} /\ input.keys_released = {}

\* A key event was dispatched in a cycle that began with the reset.
C7_Witness ==
    /\ pc = "peek"
    /\ dispatched > 0
    /\ frame_resets = 1
    /\ input.keys_pressed # {}

(* C8: frame transition semantics. A key is in the pressed-this-frame set
   only in the poll cycle in which its down edge was dispatched, and it is
   held exactly from its down edge to its up event, also when the platform
   repeats the down event while the key stays down. *)
C8_FrameTransitions ==
    /\ input.keys_pressed \subseteq down_edges
    /\ input.keys_held = dispatched_down

\* The device calls of resize_swap_chain, in the order of the claim.
ResizeOrder ==
    <<"om_set_render_targets", "drop_render_target_view", "drop_depth_stencil_view",
      "flush", "resize_buffers", "create_render_target_view",
      "create_depth_stencil_view", "rs_set_viewports">>

(* C9: resize ordering. The device calls of resize_swap_chain happen in the
   order unbind, release render-target view, release depth-stencil view,
   flush, resize buffers, create render-target view, create depth-stencil
   buffer and view, set viewport; when the buffer resize is requested no view
   exists and none is bound, and the views are created from the resized
   buffers. *)
C9_ResizeOrdering ==
    /\ pc \in ResizePcs =>
          \E n \in 1..Len(ResizeOrder) :
              ResizeOrder[n] = pc /\ call_log = SubSeq(ResizeOrder, 1, n - 1)
    /\ pc = "update_viewports" => call_log = ResizeOrder
    /\ pc = "resize_buffers" =>
          render_target_view = None /\ depth_stencil_view = None /\ ~om_bound
    /\ pc = "create_render_target_view" => swap_chain = resize_arg
    /\ pc = "rs_set_viewports" =>
          /\ render_target_view = resize_arg
          /\ depth_stencil_buffer = resize_arg
          /\ depth_stencil_view = resize_arg

\* A resize that began with the targets bound has made all its calls.
C9_Witness == pc = "update_viewports" /\ call_log = ResizeOrder /\ rendering

(* C10 as stated: the render-target view, the depth-stencil view and the
   depth-stencil buffer are all three present or all three absent in every
   state, the intermediate states of a resize included. *)
C10_AllOrNothing ==
    \/ /\ render_target_view # None
       /\ depth_stencil_view # None
       /\ depth_stencil_buffer # None
    \/ /\ render_target_view = None
       /\ depth_stencil_view = None
       /\ depth_stencil_buffer = None

(* C10 amended: outside resize_swap_chain both views and the depth-stencil
   buffer are present; both views are absent when the swap-chain buffer
   resize is requested; the depth-stencil buffer is never absent, it is kept
   through the resize and replaced after the buffers are resized. *)
C10_ViewsReleasedBufferKept ==
    /\ depth_stencil_buffer # None
    /\ pc \in {"host", "peek", "update_viewports", "om_set_render_targets"} =>
          render_target_view # None /\ depth_stencil_view # None
    /\ pc \in {"flush", "resize_buffers", "create_render_target_view"} =>
          render_target_view = None /\ depth_stencil_view = None

\* The buffer resize is requested with both views released and the old
\* depth-stencil buffer still allocated.
C10_Witness ==
    /\ pc = "resize_buffers"
    /\ render_target_view = None
    /\ depth_stencil_view = None
    /\ depth_stencil_buffer # None
    /\ depth_stencil_buffer # resize_arg

\* The rect of viewport v as the rasterizer receives it.
Rect(v) == <<v.top_left, v.size>>

\* The keys of the registered viewports.
RegisteredKeys == {viewports[i].key : i \in 1..Len(viewports)}

(* C11: end_render with no frame in progress unbinds nothing, presents
   nothing and leaves the frame-in-progress flag false; with a frame in
   progress it unbinds, presents exactly once with sync interval 1 and clears
   the flag. So whenever end_render has returned (and begin_render was not
   called since) the flag is false, nothing is bound, and the call made at
   most one present, with sync interval 1. *)
C11_EndRenderEndsFrame ==
    end_result # "none" =>
        /\ ~rendering
        /\ ~om_bound
        /\ Len(presents) <= 1
        /\ \A n \in 1..Len(presents) : presents[n].sync_interval = 1

(* C12: viewport keys are strictly increasing and never reused. The keys
   create_viewport has returned are strictly increasing in the order of the
   calls, every one of them and every registered key is below the key the
   next call returns, and no two registered viewports share a key, whatever
   was removed in between. *)
C12_KeysStrictlyIncreasing ==
    /\ \A i, j \in 1..Len(returned_keys) : i < j => returned_keys[i] < returned_keys[j]
    /\ \A i \in 1..Len(returned_keys) : returned_keys[i] < new_viewport_key
    /\ \A i, j \in 1..Len(viewports) : i < j => viewports[i].key < viewports[j].key
    /\ RegisteredKeys \subseteq {returned_keys[i] : i \in 1..Len(returned_keys)}

\* Two viewports were created and the first one removed: the registry holds
\* one viewport but the key of the survivor is 1 and the next key is 2.
C12_Witness ==
    /\ returned_keys = <<0, 1>>
    /\ removed_keys = {0}
    /\ Len(viewports) = 1
    /\ viewports[1].key = 1
    /\ new_viewport_key = 2

(* C13: viewport key stability. A remove_viewport(k) that finds key k deletes
   exactly that viewport and leaves the key, rect and policy of every other
   viewport, and their order, unchanged; from then on get_viewport(k) finds
   nothing, whatever is created afterwards. *)
C13_KeyStability ==
    /\ [](\A k \in removed_keys : get_viewport(k) = 0)
    /\ [][removed_keys' # removed_keys =>
            \E k \in RegisteredKeys :
                /\ removed_keys' = removed_keys \cup {k}
                /\ viewports' = SelectSeq(viewports, LAMBDA v : v.key # k)
                /\ new_viewport_key' = new_viewport_key]_vars

\* A, B, C were created and B removed: A and C are left, B is not found.
C13_Witness ==
    /\ returned_keys = <<0, 1, 2>>
    /\ removed_keys = {1}
    /\ Len(viewports) = 2
    /\ viewports[1].key = 0
    /\ viewports[2].key = 2
    /\ get_viewport(1) = 0

(* C14: update_viewports(new_size) calls the policy of every registered
   viewport that has one exactly once, with new_size, and replaces that
   viewport's rect by what the policy returns; a viewport without a policy
   keeps its rect; no key or policy changes, no viewport is added or removed. *)
C14_Relayout ==
    [][(pc = "update_viewports" /\ pc' = "peek") =>
          LET new_size == <<width, height>>
          IN  /\ Len(viewports') = Len(viewports)
              /\ \A i \in 1..Len(viewports) :
                    /\ viewports'[i].key = viewports[i].key
                    /\ viewports'[i].updater = viewports[i].updater
                    /\ IF viewports[i].updater = "None"
                       THEN Rect(viewports'[i]) = Rect(viewports[i])
                       ELSE Rect(viewports'[i]) =
                                update_viewport(viewports[i].updater, new_size)
                    /\ Cardinality({n \in 1..Len(updater_calls') :
                                       updater_calls'[n][1] = viewports[i].key})
                          = IF viewports[i].updater = "None" THEN 0 ELSE 1
              /\ \A n \in 1..Len(updater_calls') : updater_calls'[n][2] = new_size]_vars

\* A committed resize has laid out a registry that holds a fixed-rect viewport
\* and a viewport with a policy: one policy call, the fixed rect is as created.
C14_Witness ==
    /\ pc = "peek"
    /\ commits > 0
    /\ Len(updater_calls) = 1
    /\ \E i, j \in 1..Len(viewports) :
          /\ viewports[i].updater = "None"
          /\ Rect(viewports[i]) \in HostRects
          /\ viewports[j].updater = "LeftHalf"
          /\ viewports[j].size = <<width \div 2, height>>
          /\ updater_calls[1] = <<viewports[j].key, <<width, height>>>>

(* C15: set_active_viewport with a key that is not registered is a silent
   no-op: no error, no change of the registry, the bound viewport stays; with
   a registered key it binds that viewport's current rect. *)
C15_SetActiveViewport ==
    [][(selected' # selected \/ rs_viewport' # rs_viewport) =>
          /\ pc' = pc
          /\ UNCHANGED registryVars
          /\ IF selected' \in RegisteredKeys
             THEN rs_viewport' = Rect(viewports[get_viewport(selected')])
             ELSE rs_viewport' = rs_viewport]_vars

\* A viewport was bound and then a key that create_viewport never returns was
\* selected: the rect of the registered viewport is still bound.
C15_Witness ==
    /\ pc = "host"
    /\ selected = MaxKeys
    /\ selected \notin RegisteredKeys
    /\ \E i \in 1..Len(viewports) : rs_viewport = Rect(viewports[i])

\* The override arms of parse_vkey: every code the match of parse_vkey names.
OverrideCodes == ExtendedCodes \cup {29}

\* The raw record of the keyboard message that was dispatched last.
DecodedRecord == dispatched > 0 /\ msg.message = "WM_INPUT"

(* C16 as stated: for every code of the override set, the key decoded with
   the extended flag clear and the key decoded with it set are two distinct
   specific keys, never None, and the result depends on nothing but the code
   and the extended flag. *)
C16_TwoDistinctKeys ==
    (DecodedRecord /\ (msg.raw.make_code % 128) \in OverrideCodes) =>
        LET flipped_e0 == parse_vkey([msg.raw EXCEPT !.e0 = ~@])
            flipped_e1 == parse_vkey([msg.raw EXCEPT !.e1 = ~@])
        IN  /\ decoded # "None"
            /\ flipped_e0 # "None"
            /\ decoded # flipped_e0
            /\ decoded = flipped_e1

(* C16 amended: for every override code other than 0x2A the two decodings are
   two distinct specific keys; 0x2A with the extended flag clear is LeftShift
   and with it set is None; the result depends on nothing but the code and the
   extended flag, except for 0x1D with the extended flag clear, where E1 set
   gives Pause and E1 clear gives LeftControl. *)
C16_OverrideDecoding ==
    (DecodedRecord /\ (msg.raw.make_code % 128) \in OverrideCodes) =>
        LET key_code == msg.raw.make_code % 128
            flipped_e0 == parse_vkey([msg.raw EXCEPT !.e0 = ~@])
            flipped_e1 == parse_vkey([msg.raw EXCEPT !.e1 = ~@])
        IN  /\ key_code # 42 => /\ decoded # "None"
                                /\ flipped_e0 # "None"
                                /\ decoded # flipped_e0
            /\ key_code = 42 => decoded = IF msg.raw.e0 THEN "None" ELSE "LeftShift"
            /\ (key_code # 29 \/ msg.raw.e0) => decoded = flipped_e1
            /\ (key_code = 29 /\ ~msg.raw.e0) =>
                  decoded = IF msg.raw.e1 THEN "Pause" ELSE "LeftControl"

\* The extended form of 0x2A was dispatched as a key press: it decoded to
\* None and the input model saw no key.
C16_Witness ==
    /\ DecodedRecord
    /\ msg.raw.make_code % 128 = 42
    /\ msg.raw.e0
    /\ msg.raw.pressed
    /\ decoded = "None"
    /\ input.keys_pressed = {}

(* C17: key decode totality. For every 8-bit make code and every combination
   of E0 and E1, parse_vkey returns a key or None; only the low 7 bits of the
   code matter; every reduced code at or beyond the table length (0x5E..0x7F)
   gives None; a reduced code inside the table that has no override arm gives
   its table entry; and a record that decodes to None does not reach the
   input model. *)
C17_DecodeTotal ==
    DecodedRecord =>
        LET key_code == msg.raw.make_code % 128
        IN  /\ decoded = parse_vkey([msg.raw EXCEPT !.make_code = key_code])
            /\ key_code >= Len(CODES) => decoded = "None"
            /\ (key_code < Len(CODES) /\ key_code \notin OverrideCodes) =>
                  decoded = CODES[key_code + 1]
            /\ Len(CODES) = 94
            /\ decoded = "None" =>
                  input.keys_pressed = {} /\ input.keys_released = {} /\ input.keys_held = {}
            /\ decoded # "None" =>
                  IF msg.raw.pressed
                  THEN input.keys_pressed = {decoded} /\ input.keys_held = {decoded}
                  ELSE input.keys_released = {decoded} /\ input.keys_held = {}

\* A make code with the high bit set was decoded through its low 7 bits, and
\* a code beyond the table was decoded to None.
C17_Witness ==
    /\ DecodedRecord
    /\ pc = "peek"
    /\ \/ msg.raw.make_code = 158 /\ decoded = "A" /\ input.keys_held = {"A"}
       \/ msg.raw.make_code = 255 /\ decoded = "None"

(* C18: poll_events never blocks and always terminates. Once the drain loop
   has been entered it is left again, the call returns to the host (or a
   failed platform call has aborted the thread), for every
   finite backlog the user produces and also while the mouse is locked and
   each dispatched mouse move warps the cursor. *)
C18_PollEventsReturns == (pc = "peek") ~> (pc \in {"host", "panicked"})

\* The result of the end_render call that made the present calls p, had the
\* diagnostics been switched off: the error of a failed present, or Ok.
ResultWithoutLogging(p) == IF p # <<>> /\ ~p[1].ok THEN "PresentError" ELSE "Ok"

(* C19: debug diagnostics are purely observational. Whatever the diagnostic
   queue holds, and also when reading a diagnostic message fails, end_render
   returns with debug logging enabled the result it returns with it disabled. *)
C19_DiagnosticsObservational ==
    end_result # "none" => end_result = ResultWithoutLogging(presents)

(* C20: overlapping frames are disallowed. A begin_render while a frame is in
   progress, with no end_render since the begin_render that started it, is
   rejected or has no effect: no second begin_render takes effect before the
   next end_render. *)
C20_NoOverlappingFrames == rendering => begins <= 1

\* The current step hands the message at the head of the queue, of the given
\* kind, to wnd_proc.
Handles(kind) ==
    /\ pc = "peek"
    /\ queue # <<>>
    /\ Head(queue).message = kind
    /\ queue' = Tail(queue)

\* The messages whose handler puts a locked mouse back to the center.
WarpingMessages == {"WM_MOUSEMOVE", "WM_SETFOCUS"}

(* C21: mouse lock re-centering. While the input model reports the mouse
   locked, the handler of every mouse-move message first hands the position to
   the input model and then calls reset_mouse_position, which (unless a
   platform call fails and aborts) makes exactly one set_cursor_pos call, to
   mouse_center, before the handler returns; the handler of every focus-gain
   message does the same without a position update. While the mouse is not
   locked neither handler makes a set_cursor_pos call. *)
C21_MouseLockRecentering ==
    /\ [](pc = "reset_mouse_position" =>
            /\ is_mouse_locked(input)
            /\ msg.message \in WarpingMessages
            /\ warps = <<>>
            /\ msg.message = "WM_MOUSEMOVE" =>
                  msg.l_param = PackLParam(input.mouse_position[1] + width \div 2,
                                           input.mouse_position[2] + height \div 2, 0))
    /\ [](Len(warps) <= 1)
    /\ [][(Handles("WM_MOUSEMOVE") \/ Handles("WM_SETFOCUS")) =>
            /\ pc' = IF is_mouse_locked(input') THEN "reset_mouse_position" ELSE "peek"
            /\ warps' = <<>>
            /\ cursor' = cursor]_vars
    /\ [][pc = "reset_mouse_position" =>
            \/ pc' = "panicked"
            \/ /\ pc' = "peek"
               /\ warps' = <<mouse_center'>>
               /\ cursor' = mouse_center'
               /\ input' = input]_vars
    /\ [][(warps' # warps /\ warps' # <<>>) => pc = "reset_mouse_position"]_vars

\* A mouse move of a locked mouse was handled: the input model has the
\* position relative to the window center, and one warp put the cursor back.
C21_Witness ==
    /\ pc = "peek"
    /\ is_mouse_locked(input)
    /\ msg.message = "WM_MOUSEMOVE"
    /\ msg.l_param = PackLParam(412, 309, 0)
    /\ input.mouse_position = <<12, 9>>
    /\ warps = <<mouse_center>>
    /\ cursor = mouse_center

(* C22: default viewport per frame. Every begin_render, after the render
   surface has begun the frame (flag set, targets bound), hands the current
   default viewport key to set_active_viewport: the key is the last one given
   to set_default_viewport, 0 before the first call, and the rasterizer gets
   the rect of the viewport registered under it (nothing is bound when no
   viewport has the key). Giving a new default key binds nothing by itself;
   the host's own selections come after begin_render has returned. *)
C22_DefaultViewportPerFrame ==
    /\ [][(begins' > begins /\ pc' = "host") =>
            /\ rendering'
            /\ om_bound'
            /\ selected' = default_viewport
            /\ default_viewport' = default_viewport
            /\ rs_viewport' = IF default_viewport \in RegisteredKeys
                              THEN Rect(viewports[get_viewport(default_viewport)])
                              ELSE rs_viewport]_vars
    /\ [][default_viewport' # default_viewport =>
            UNCHANGED <<rs_viewport, selected, rendering, viewports>>]_vars

\* A frame has begun after the host made the second of two different
\* viewports the default one: its rect is bound, not the rect of the first.
C22_Witness ==
    /\ pc = "host"
    /\ rendering
    /\ begins = 1
    /\ default_viewport = 1
    /\ selected = 1
    /\ Len(viewports) = 2
    /\ Rect(viewports[1]) # Rect(viewports[2])
    /\ rs_viewport = Rect(viewports[2])

(* C23: commit-size procedure order. When the size read differs from the
   stored size, update_size stores the new width and height and sets the
   size-changed flag before it calls resize_swap_chain, calls it with the new
   size, and calls update_viewports only after resize_swap_chain has returned,
   with the same new size: during the resize the stored size is the size read
   and the flag is set; when the relayout starts every device call of the
   resize has been made and the buffers and views have the new size; and the
   viewport policies were last called with the size of the render surface. *)
C23_CommitOrder ==
    /\ pc \in (ResizePcs \cup {"update_viewports"}) =>
          /\ <<width, height>> = get_window_rect
          /\ window_size_changed
          /\ resize_arg = <<width, height>>
          /\ commits > 0
    /\ pc = "update_viewports" =>
          /\ call_log = ResizeOrder
          /\ swap_chain = <<width, height>>
          /\ render_target_view = <<width, height>>
          /\ depth_stencil_view = <<width, height>>
    /\ pc \in {"host", "peek"} =>
          \A n \in 1..Len(updater_calls) :
              updater_calls[n][2] = <<width, height>> /\ updater_calls[n][2] = swap_chain

\* The relayout of a commit is about to start: the surface has the new size,
\* a viewport with a full-window policy still has the rect it was created with.
C23_Witness ==
    /\ pc = "update_viewports"
    /\ call_log = ResizeOrder
    /\ window_size_changed
    /\ swap_chain = <<width, height>>
    /\ swap_chain # InitClientSize
    /\ \E i \in 1..Len(viewports) :
          viewports[i].updater = "Full" /\ Rect(viewports[i]) \in HostRects

\* Viewport i of the current state and viewport j of the next state are the
\* same viewport (same key) with different rects.
RectChanges(i, j) ==
    /\ viewports'[j].key = viewports[i].key
    /\ Rect(viewports'[j]) # Rect(viewports[i])

(* C24 as stated: after create_viewport the rect of a viewport changes only
   inside update_viewports; no operation of the public window interface
   changes the rect of an existing viewport. *)
C24_OnlyRelayoutMutatesRects ==
    [][\A i \in 1..Len(viewports) : \A j \in 1..Len(viewports') :
          RectChanges(i, j) => pc = "update_viewports"]_vars

(* C24 amended: the rect of an existing viewport changes only inside
   update_viewports, where a viewport with a policy gets the rect its policy
   returns for the new size, or by the host's update_viewport call, which
   gives the viewport registered under the key the rect passed in and leaves
   every other viewport, every key and every policy as they are; no other
   operation changes the rect of an existing viewport. *)
C24_RectsMutatedByRelayoutOrHost ==
    [][\A i \in 1..Len(viewports) : \A j \in 1..Len(viewports') :
          RectChanges(i, j) =>
              \/ /\ pc = "update_viewports"
                 /\ viewports[i].updater # "None"
                 /\ Rect(viewports'[j]) =
                        update_viewport(viewports[i].updater, <<width, height>>)
              \/ /\ pc = "host"
                 /\ pc' = "host"
                 /\ Rect(viewports'[j]) \in HostUpdateRects
                 /\ Len(viewports') = Len(viewports)
                 /\ i = j
                 /\ viewports'[i].updater = viewports[i].updater
                 /\ \A n \in 1..Len(viewports) : n # i => viewports'[n] = viewports[n]]_vars

\* A committed resize has laid out a viewport with a full-window policy, and
\* the host has then given that viewport a rect of its own.
C24_Witness ==
    /\ pc = "host"
    /\ commits > 0
    /\ \E i \in 1..Len(viewports) :
          /\ viewports[i].updater = "Full"
          /\ Rect(viewports[i]) \in HostUpdateRects
          /\ viewports[i].size # <<width, height>>

(* C25: the update_mouse_center flag is set by every message that tells a
   move of the window and by every committed resize, and it is cleared exactly
   when the center is recomputed from the current position and size of the
   window, which happens at the next warp: a warp leaves the flag clear, and
   the center changes in no other step. *)
C25_CenterFlag ==
    /\ [][Handles("WM_WINDOWPOSCHANGED") => update_mouse_center']_vars
    /\ [][commits' > commits => update_mouse_center']_vars
    /\ [][(update_mouse_center /\ ~update_mouse_center') =>
            /\ pc = "reset_mouse_position"
            /\ mouse_center' = client_to_screen(winPos, width \div 2, height \div 2)]_vars
    /\ [][mouse_center' # mouse_center => (update_mouse_center /\ ~update_mouse_center')]_vars
    /\ [][(pc = "reset_mouse_position" /\ pc' = "peek") => ~update_mouse_center']_vars

(* C26: mouse-move delta. For a mouse-move message whose l_param carries x
   in its low 16 bits and y in the next 16 bits as 16-bit two's complement
   numbers, whatever the upper half of l_param holds, the handler passes to
   the input model exactly (x - width/2, y - height/2), with the integer
   halves of the width and height stored when the message is handled, and
   stores nothing else. *)
C26_MouseMoveDelta ==
    [][Handles("WM_MOUSEMOVE") =>
          \A x, y \in PointerCoords : \A high \in PointerHighs :
              Head(queue).l_param = PackLParam(x, y, high) =>
                  /\ input' = [input EXCEPT !.mouse_position =
                                   <<x - width \div 2, y - height \div 2>>]
                  /\ width' = width
                  /\ height' = height]_vars

\* After a committed resize to an odd height, a mouse message for a point
\* left of and above the client area, with a sign-extended l_param, was
\* handled: both coordinates of the position are negative.
C26_Witness ==
    /\ pc = "peek"
    /\ msg.message = "WM_MOUSEMOVE"
    /\ msg.l_param = PackLParam(-1, -32768, -1)
    /\ msg.l_param[3] < 0
    /\ <<width, height>> = <<1936, 1119>>
    /\ input.mouse_position = <<-969, -33327>>

\* The current step hands the message at the head of the queue to wnd_proc.
HandlesHead == pc = "peek" /\ queue # <<>> /\ queue' = Tail(queue)

(* C27: input dispatch. The handler of each mouse-button message makes
   exactly one call on the input model, mouse_down or mouse_up with the button
   of the message; the handler of a mouse-move message makes exactly one
   update_mouse_position call; the handler of a raw keyboard record that
   decodes to a key makes exactly one call, key_down with that key for a
   pressed key and key_up for a released one; a keyboard record that decodes
   to None and raw input that is not from a keyboard lead to no call, leave
   the input model as it is and raise no error; no other message reaches the
   input model. *)
C27_InputDispatch ==
    [][HandlesHead =>
          LET m == Head(queue)
              One(call, arg) == input_calls' = <<<<call, arg>>>>
          IN  /\ pc' = "peek"
              /\ m.message = "WM_LBUTTONDOWN" =>
                    One("mouse_down", "Primary") /\ input' = mouse_down(input, "Primary")
              /\ m.message = "WM_LBUTTONUP" =>
                    One("mouse_up", "Primary") /\ input' = mouse_up(input, "Primary")
              /\ m.message = "WM_RBUTTONDOWN" =>
                    One("mouse_down", "Secondary") /\ input' = mouse_down(input, "Secondary")
              /\ m.message = "WM_RBUTTONUP" =>
                    One("mouse_up", "Secondary") /\ input' = mouse_up(input, "Secondary")
              /\ m.message = "WM_MBUTTONDOWN" =>
                    One("mouse_down", "Middle") /\ input' = mouse_down(input, "Middle")
              /\ m.message = "WM_MBUTTONUP" =>
                    One("mouse_up", "Middle") /\ input' = mouse_up(input, "Middle")
              /\ m.message = "WM_MOUSEMOVE" =>
                    /\ Len(input_calls') = 1
                    /\ input_calls'[1][1] = "update_mouse_position"
                    /\ input' = update_mouse_position(input, input_calls'[1][2])
              /\ m.message = "WM_INPUT" =>
                    IF m.raw = RawOther \/ parse_vkey(m.raw) = "None"
                    THEN input_calls' = <<>> /\ input' = input
                    ELSE IF m.raw.pressed
                         THEN /\ One("key_down", parse_vkey(m.raw))
                              /\ input' = key_down(input, parse_vkey(m.raw))
                         ELSE /\ One("key_up", parse_vkey(m.raw))
                              /\ input' = key_up(input, parse_vkey(m.raw))
              /\ m.message \notin (ButtonMessages \cup {"WM_MOUSEMOVE", "WM_INPUT"}) =>
                    input_calls' = <<>> /\ input' = input]_vars

\* With the A key held down the secondary button went down and up again:
\* the last handler made the one mouse_up call, the key is still held.
C27_Witness ==
    /\ pc = "peek"
    /\ msg.message = "WM_RBUTTONUP"
    /\ input_calls = <<<<"mouse_up", "Secondary">>>>
    /\ input.buttons_held = {}
    /\ input.keys_held = {"A"}

(* C28: one present per frame, also on failure. When the present inside
   end_render fails, end_render returns the render error of that present; the
   frame that failed is no longer in progress, so an end_render that follows
   with no begin_render in between makes no present call; and the surface can
   be used again: the end_render of a following begin_render / end_render
   pair makes exactly one present call. *)
C28_OnePresentPerFrame ==
    /\ [](end_result = "PresentError" =>
            /\ presents = <<[sync_interval |-> 1, ok |-> FALSE]>>
            /\ ~rendering)
    /\ [][(begins = 0 /\ presents' # presents) => presents' = <<>>]_vars
    /\ [][(begins > 0 /\ begins' = 0 /\ pc' = "host") => Len(presents') = 1]_vars

(* C30: resize failures are fatal. A failure of the swap-chain buffer resize,
   of the render-target view or of the depth-stencil buffer and view stops
   the thread inside resize_swap_chain: control is outside resize_swap_chain
   and not stopped only with the swap chain, the render-target view and the
   depth-stencil buffer and view all of the stored size; so wherever
   begin_render can be called both views are present. *)
C30_ResizeFailuresFatal ==
    /\ pc \notin (ResizePcs \cup {"panicked"}) =>
          /\ swap_chain = <<width, height>>
          /\ render_target_view = swap_chain
          /\ depth_stencil_buffer = swap_chain
          /\ depth_stencil_view = swap_chain
    /\ pc = "host" => render_target_view # None /\ depth_stencil_view # None
    /\ (pc = "panicked" /\ call_log # <<>> /\ Len(call_log) < Len(ResizeOrder)) =>
          \/ render_target_view = None
          \/ depth_stencil_view = None

\* The buffers were resized and the render-target view recreated, then the
\* depth-stencil creation failed: the thread has stopped with no
\* depth-stencil view.
C30_Witness ==
    /\ pc = "panicked"
    /\ swap_chain = resize_arg
    /\ render_target_view = swap_chain
    /\ depth_stencil_view = None

(* ------------------------------------------------- construction: Window::new *)

\* The client sizes the host asks Window::new for.
NewSizes == {<<800, 600>>, <<1024, 768>>, <<1280, 720>>, <<1920, 1080>>}

\* The state Window::new starts its platform calls in: the boxed Window has a
\* null handle, no graphics and the center flag set; no window exists and no
\* device object has been created.
ConstructInit ==
    /\ \E size \in NewSizes :
          /\ width = size[1]
          /\ height = size[2]
          /\ resize_arg = size
    /\ debug_logging \in BOOLEAN
    /\ input = NewInput
    /\ h_wnd = NULL
    /\ graphics = "None"
    /\ graphics_new = "none"
    /\ window_new = "none"
    /\ user_data = NULL
    /\ min_max_info = None
    /\ new_calls = <<>>
    /\ msg = Msg("WM_NULL", "0", NoRaw)
    /\ minimized = FALSE
    /\ in_size_move = FALSE
    /\ window_size_changed = FALSE
    /\ swap_chain = None
    /\ render_target_view = None
    /\ depth_stencil_buffer = None
    /\ depth_stencil_view = None
    /\ rendering = FALSE
    /\ viewports = <<>>
    /\ new_viewport_key = 0
    /\ default_viewport = 0
    /\ om_bound = FALSE
    /\ rs_viewport = None
    /\ device_context = "unborrowed"
    /\ pc = "register_class_ex"
    /\ queue = <<>>
    /\ winSize = <<0, 0>>
    /\ osMinimized = FALSE
    /\ osSizeMove = FALSE
    /\ keysDown = {}
    /\ destroyed = FALSE
    /\ events = 0
    /\ poll_result = "none"
    /\ frame_resets = 0
    /\ dispatched = 0
    /\ quit_seen = 0
    /\ update_size_calls = 0
    /\ commits = 0
    /\ down_edges = {}
    /\ dispatched_down = {}
    /\ call_log = <<>>
    /\ mouse_center = <<0, 0>>
    /\ update_mouse_center = TRUE
    /\ info_queue = 0
    /\ winPos = <<0, 0>>
    /\ cursor = <<420, 340>>
    /\ decoded = "no_call"
    /\ input_calls = <<>>
    /\ selected = -1
    /\ updater_calls = <<>>
    /\ returned_keys = <<>>
    /\ removed_keys = {}
    /\ end_result = "none"
    /\ presents = <<>>
    /\ begins = 0
    /\ warps = <<>>

\* What no step of Window::new changes.
NewFrame ==
    UNCHANGED <<input, width, height, user_data, min_max_info, msg, minimized, in_size_move,
                window_size_changed, om_bound, device_context, registryVars, rendering,
                resize_arg, queue, osMinimized,
                osSizeMove, keysDown, destroyed, events, poll_result, frame_resets,
                dispatched, quit_seen, update_size_calls, commits, down_edges,
                dispatched_down, call_log, winPos, cursor, warps, frameVars, traceVars>>

\* The objects Graphics::new holds in locals until it builds the Graphics value.
NewLocals == <<swap_chain, render_target_view, depth_stencil_buffer, depth_stencil_view,
               rs_viewport>>

\* The fields of the boxed Window that Window::new assigns.
NewFields == <<h_wnd, winSize, mouse_center, update_mouse_center>>

\* A platform call of Window::new or Graphics::new succeeds: control moves on.
NewCall(from, to) ==
    /\ pc = from
    /\ queue = <<>>
    /\ pc' = to
    /\ new_calls' = Append(new_calls, <<from, TRUE>>)
    /\ UNCHANGED <<graphics, graphics_new, window_new>>
    /\ NewFrame

\* A platform call of Window::new fails: the ? operator returns the error and
\* the boxed Window is dropped.
WindowNewFails(from) ==
    /\ pc = from
    /\ queue = <<>>
    /\ pc' = "no_window"
    /\ new_calls' = Append(new_calls, <<from, FALSE>>)
    /\ window_new' = "Err"
    /\ UNCHANGED <<graphics, graphics_new, NewLocals, NewFields>>
    /\ NewFrame

\* Fault variant: the failure is tagged with the class of the step before it
\* in the creation helper.
GraphicsNewFails_PreviousClass(from, class) ==
    /\ pc = from
    /\ queue = <<>>
    /\ pc' = "no_window"
    /\ new_calls' = Append(new_calls, <<from, FALSE>>)
    /\ graphics_new' = IF class = "DepthStencilView" THEN "DepthStencilBuffer" ELSE class
    /\ window_new' = "Err"
    /\ swap_chain' = None
    /\ render_target_view' = None
    /\ depth_stencil_buffer' = None
    /\ depth_stencil_view' = None
    /\ rs_viewport' = None
    /\ UNCHANGED <<graphics, NewFields>>
    /\ NewFrame

\* A creation call of Graphics::new fails: Graphics::new returns
\* Err(GraphicsCreationError::new(class, error)), its locals are dropped, and
\* the ? operator of Window::new returns the error (window.rs:262).
GraphicsNewFails(from, class) ==
    /\ pc = from
    /\ queue = <<>>
    /\ pc' = "no_window"
    /\ new_calls' = Append(new_calls, <<from, FALSE>>)
    /\ graphics_new' = class
    /\ window_new' = "Err"
    /\ swap_chain' = None
    /\ render_target_view' = None
    /\ depth_stencil_buffer' = None
    /\ depth_stencil_view' = None
    /\ rs_viewport' = None
    /\ UNCHANGED <<graphics, NewFields>>
    /\ NewFrame

\* win32::register_class_ex(&wnd_class)?
new_register_class_ex ==
    \/ NewCall("register_class_ex", "adjust_window_rect") /\ UNCHANGED <<NewLocals, NewFields>>
    \/ WindowNewFails("register_class_ex")

\* win32::adjust_window_rect(&mut rect, &STYLE, false)?
new_adjust_window_rect ==
    \/ NewCall("adjust_window_rect", "create_window_ex") /\ UNCHANGED <<NewLocals, NewFields>>
    \/ WindowNewFails("adjust_window_rect")

\* window.h_wnd = win32::create_window_ex(.., rect.right - rect.left,
\* rect.bottom - rect.top, ..)?: the window exists with the adjusted rectangle.
\* The messages sent during creation find a null handle in the Window and
\* change none of its fields.
new_create_window_ex ==
    \/ /\ NewCall("create_window_ex", "register_raw_input_devices")
       /\ user_data # NULL
       /\ h_wnd' = HWND
       /\ winSize' = AdjustWindowRect(width, height)
       /\ UNCHANGED <<NewLocals, mouse_center, update_mouse_center>>
    \/ WindowNewFails("create_window_ex")

\* win32::register_raw_input_devices(..)?
new_register_raw_input_devices ==
    \/ NewCall("register_raw_input_devices", "IDXGIFactory_new")
       /\ UNCHANGED <<NewLocals, NewFields>>
    \/ WindowNewFails("register_raw_input_devices")

\* get_refresh_rate: win32::IDXGIFactory::new()
new_IDXGIFactory_new ==
    \/ NewCall("IDXGIFactory_new", "enum_adapters") /\ UNCHANGED <<NewLocals, NewFields>>
    \/ GraphicsNewFails("IDXGIFactory_new", "DXGIFactoryCreation")

\* get_refresh_rate: factory.enum_adapters(0)
new_enum_adapters ==
    \/ NewCall("enum_adapters", "enum_outputs") /\ UNCHANGED <<NewLocals, NewFields>>
    \/ GraphicsNewFails("enum_adapters", "PrimaryAdapter")

\* get_refresh_rate: adapter.enum_outputs(0)
new_enum_outputs ==
    \/ NewCall("enum_outputs", "get_display_mode_list") /\ UNCHANGED <<NewLocals, NewFields>>
    \/ GraphicsNewFails("enum_outputs", "PrimaryOutput")

\* get_refresh_rate: output.get_display_mode_list(..); the refresh rate of the
\* mode of the requested size, or 0/0 when there is none.
new_get_display_mode_list ==
    \/ NewCall("get_display_mode_list", "d3d11_create_device_and_swap_chain")
       /\ UNCHANGED <<NewLocals, NewFields>>
    \/ GraphicsNewFails("get_display_mode_list", "DisplayModes")

\* win32::d3d11_create_device_and_swap_chain(.., &swap_chain_desc)
new_d3d11_create_device_and_swap_chain ==
    \/ /\ NewCall("d3d11_create_device_and_swap_chain", "get_buffer")
       /\ swap_chain' = <<width, height>>
       /\ UNCHANGED <<render_target_view, depth_stencil_buffer, depth_stencil_view,
                      rs_viewport, NewFields>>
    \/ GraphicsNewFails("d3d11_create_device_and_swap_chain", "DeviceAndSwapChain")

\* create_render_target_view: swap_chain.get_buffer(0)
new_get_buffer ==
    \/ NewCall("get_buffer", "create_render_target_view") /\ UNCHANGED <<NewLocals, NewFields>>
    \/ GraphicsNewFails("get_buffer", "BackBuffer")

\* create_render_target_view: device.create_render_target_view(&mut back_buffer, None)
new_create_render_target_view ==
    \/ /\ NewCall("create_render_target_view", "create_texture_2d")
       /\ render_target_view' = swap_chain
       /\ UNCHANGED <<swap_chain, depth_stencil_buffer, depth_stencil_view, rs_viewport,
                      NewFields>>
    \/ GraphicsNewFails("create_render_target_view", "RenderTargetView")

\* create_depth_stencil_view: device.create_texture_2d(&depth_buffer_desc, None)
new_create_texture_2d ==
    \/ /\ NewCall("create_texture_2d", "create_depth_stencil_view")
       /\ depth_stencil_buffer' = <<width, height>>
       /\ UNCHANGED <<swap_chain, render_target_view, depth_stencil_view, rs_viewport,
                      NewFields>>
    \/ GraphicsNewFails("create_texture_2d", "DepthStencilBuffer")

\* create_depth_stencil_view: device.create_depth_stencil_view(..)
new_create_depth_stencil_view ==
    \/ /\ NewCall("create_depth_stencil_view", "create_depth_stencil_state")
       /\ depth_stencil_view' = depth_stencil_buffer
       /\ UNCHANGED <<swap_chain, render_target_view, depth_stencil_buffer, rs_viewport,
                      NewFields>>
    \/ GraphicsNewFails("create_depth_stencil_view", "DepthStencilView")

\* device.create_depth_stencil_state(..), then om_set_depth_stencil_state
new_create_depth_stencil_state ==
    \/ NewCall("create_depth_stencil_state", "create_rasterizer_state")
       /\ UNCHANGED <<NewLocals, NewFields>>
    \/ GraphicsNewFails("create_depth_stencil_state", "DepthStencilState")

\* device.create_rasterizer_state(..), then rs_set_viewports with the whole
\* client area
new_create_rasterizer_state ==
    \/ /\ NewCall("create_rasterizer_state", "query_interface")
       /\ rs_viewport' = <<<<0, 0>>, <<width, height>>>>
       /\ UNCHANGED <<swap_chain, render_target_view, depth_stencil_buffer,
                      depth_stencil_view, NewFields>>
    \/ GraphicsNewFails("create_rasterizer_state", "Rasterizer")

\* device.query_interface::<ID3D11InfoQueue>() (debug build)
new_query_interface ==
    \/ NewCall("query_interface", "push_empty_storage_filter")
       /\ UNCHANGED <<NewLocals, NewFields>>
    \/ GraphicsNewFails("query_interface", "InfoQueue")

\* info_queue.push_empty_storage_filter() (debug build)
new_push_empty_storage_filter ==
    \/ NewCall("push_empty_storage_filter", "create_blend_state")
       /\ UNCHANGED <<NewLocals, NewFields>>
    \/ GraphicsNewFails("push_empty_storage_filter", "InfoQueue")

\* device.create_blend_state(..); then Ok(Graphics { .. }) is returned and
\* stored: window.graphics = Some(..)
new_create_blend_state ==
    \/ /\ pc = "create_blend_state"
       /\ queue = <<>>
       /\ pc' = "client_to_screen"
       /\ new_calls' = Append(new_calls, <<"create_blend_state", TRUE>>)
       /\ graphics_new' = "Ok"
       /\ graphics' = "Some"
       /\ UNCHANGED <<window_new, NewLocals, NewFields>>
       /\ NewFrame
    \/ GraphicsNewFails("create_blend_state", "BlendState")

\* window.update_mouse_center(), then Ok(window); a failing client_to_screen
\* aborts the thread in expect().
new_update_mouse_center ==
    /\ pc = "client_to_screen"
    /\ \/ /\ pc' = "host"
          /\ new_calls' = Append(new_calls, <<"client_to_screen", TRUE>>)
          /\ mouse_center' = client_to_screen(winPos, width \div 2, height \div 2)
          /\ update_mouse_center' = FALSE
          /\ window_new' = "Ok"
       \/ /\ pc' = "panicked"
          /\ new_calls' = Append(new_calls, <<"client_to_screen", FALSE>>)
          /\ UNCHANGED <<mouse_center, update_mouse_center, window_new>>
    /\ UNCHANGED <<graphics, graphics_new, NewLocals, h_wnd, winSize>>
    /\ NewFrame

\* The messages the system sends to the window procedure while
\* create_window_ex runs, in this order; the window is created visible.
CreationMessages ==
    <<Msg("WM_GETMINMAXINFO", "0", NoRaw), Msg("WM_NCCREATE", "0", NoRaw),
      Msg("WM_NCCALCSIZE", "0", NoRaw), Msg("WM_CREATE", "0", NoRaw),
      Msg("WM_SHOWWINDOW", "0", NoRaw), Msg("WM_WINDOWPOSCHANGED", "0", NoRaw),
      Msg("WM_SIZE", "SIZE_RESTORED", NoRaw)>>

\* create_window_ex starts to create the window: its messages are sent, one
\* after the other, before it returns.
create_window_ex_sends ==
    /\ pc = "create_window_ex"
    /\ user_data = NULL
    /\ queue = <<>>
    /\ queue' = CreationMessages
    /\ min_max_info' = OsMinMaxInfo
    /\ UNCHANGED <<input, width, height, h_wnd, constructVars, msg, minimized, in_size_move,
                   window_size_changed, osVars, surfaceVars, registryVars, rendering, pc,
                   resize_arg, historyVars, mouseVars, frameVars, traceVars>>

\* The platform calls of Window::new during which the system calls the window
\* procedure: create_window_ex, and the creation of the swap chain for the
\* window handle.
SendingCalls == {"create_window_ex", "d3d11_create_device_and_swap_chain"}

\* The system sends a message to the window while the swap chain is created
\* for it: the window exists and its handle is stored, Graphics::new has not
\* returned.
OsSendsDuringNew ==
    /\ pc = "d3d11_create_device_and_swap_chain"
    /\ queue = <<>>
    /\ events < MaxEvents
    /\ \E m \in {Msg("WM_SIZE", "SIZE_RESTORED", NoRaw), Msg("WM_WINDOWPOSCHANGED", "0", NoRaw),
                  Msg("WM_GETMINMAXINFO", "0", NoRaw)} :
          /\ Post(m)
          /\ min_max_info' = IF m.message = "WM_GETMINMAXINFO" THEN OsMinMaxInfo
                             ELSE min_max_info
    /\ UNCHANGED <<input, width, height, h_wnd, constructVars, msg, minimized, in_size_move,
                   window_size_changed, winSize, osMinimized, osSizeMove, keysDown, destroyed,
                   surfaceVars, registryVars, rendering, pc, resize_arg, historyVars,
                   mouseVars, frameVars, traceVars>>

\* message_router, called by the system during a platform call of Window::new:
\* WM_CREATE stores the back-pointer of its create parameters in the user-data
\* slot; every other message reads the slot and dereferences what it finds.
\* A null slot gives a null reference, which is undefined behaviour: the
\* handler may run as if the reference were valid, or the thread stops.
message_router ==
    /\ pc \in SendingCalls
    /\ queue # <<>>
    /\ LET m == Head(queue)
       IN  IF m.message = "WM_CREATE"
           THEN user_data' = "window" /\ wnd_proc(m)
           ELSE /\ UNCHANGED user_data
                /\ \/ wnd_proc(m)
                   \/ /\ user_data = NULL
                      /\ pc' = "panicked"
                      /\ queue' = Tail(queue)
                      /\ UNCHANGED <<input, width, height, min_max_info, minimized,
                                     in_size_move, window_size_changed, destroyed,
                                     resize_arg, update_size_calls, commits, down_edges,
                                     dispatched_down, call_log, mouse_center,
                                     update_mouse_center, cursor, warps, decoded,
                                     input_calls>>
    /\ UNCHANGED <<h_wnd, graphics, graphics_new, window_new, new_calls, msg, surfaceVars,
                   registryVars, rendering, winSize, osMinimized, osSizeMove, keysDown,
                   events, poll_result, frame_resets, dispatched, quit_seen, winPos,
                   frameVars, updater_calls, returned_keys, removed_keys, selected>>

ConstructNext ==
    \/ create_window_ex_sends
    \/ OsSendsDuringNew
    \/ message_router
    \/ new_register_class_ex
    \/ new_adjust_window_rect
    \/ new_create_window_ex
    \/ new_register_raw_input_devices
    \/ new_IDXGIFactory_new
    \/ new_enum_adapters
    \/ new_enum_outputs
    \/ new_get_display_mode_list
    \/ new_d3d11_create_device_and_swap_chain
    \/ new_get_buffer
    \/ new_create_render_target_view
    \/ new_create_texture_2d
    \/ new_create_depth_stencil_view
    \/ new_create_depth_stencil_state
    \/ new_create_rasterizer_state
    \/ new_query_interface
    \/ new_push_empty_storage_filter
    \/ new_create_blend_state
    \/ new_update_mouse_center

ConstructSpec == ConstructInit /\ [][ConstructNext]_vars

\* The creation steps of Graphics::new and the error class that names each.
StepClass ==
    [IDXGIFactory_new |-> "DXGIFactoryCreation",
     enum_adapters |-> "PrimaryAdapter",
     enum_outputs |-> "PrimaryOutput",
     get_display_mode_list |-> "DisplayModes",
     d3d11_create_device_and_swap_chain |-> "DeviceAndSwapChain",
     get_buffer |-> "BackBuffer",
     create_render_target_view |-> "RenderTargetView",
     create_texture_2d |-> "DepthStencilBuffer",
     create_depth_stencil_view |-> "DepthStencilView",
     create_depth_stencil_state |-> "DepthStencilState",
     create_rasterizer_state |-> "Rasterizer",
     query_interface |-> "InfoQueue",
     push_empty_storage_filter |-> "InfoQueue",
     create_blend_state |-> "BlendState"]

(* C29: construction failures. The creation steps are attempted in the order
   factory, adapter, output, display modes, device and swap chain, back
   buffer, render-target view, depth-stencil buffer, depth-stencil view,
   depth-stencil state, rasterizer, info queue, blend state; a step that
   fails is the last step attempted; Graphics::new then returns an error
   whose class names that step, no Graphics value exists and none of the
   created objects is kept; and Window::new has returned an error, so the
   host holds no window. Graphics::new returns an error in no other case. *)
C29_ConstructionFailures ==
    /\ \A i \in 1..Len(new_calls) :
          /\ new_calls[i][1] = NewOrder[i]
          /\ ~new_calls[i][2] => i = Len(new_calls)
    /\ (new_calls # <<>> /\ new_calls[Len(new_calls)][1] \in DOMAIN StepClass) =>
          LET last == new_calls[Len(new_calls)]
          IN  IF last[2]
              THEN graphics_new \in {"none", "Ok"} /\ window_new = "none"
              ELSE /\ graphics_new = StepClass[last[1]]
                   /\ graphics = "None"
                   /\ swap_chain = None
                   /\ render_target_view = None
                   /\ depth_stencil_buffer = None
                   /\ depth_stencil_view = None
                   /\ window_new = "Err"
                   /\ pc = "no_window"
    /\ graphics_new \notin {"none", "Ok"} =>
          /\ new_calls # <<>>
          /\ new_calls[Len(new_calls)][1] \in DOMAIN StepClass
          /\ ~new_calls[Len(new_calls)][2]
    /\ (graphics = "Some") <=> (graphics_new = "Ok")
    /\ window_new = "Ok" => graphics = "Some"

\* The depth-stencil buffer was created and the creation of its view failed:
\* eight steps succeeded, the ninth is the last one attempted.
C29_Witness ==
    /\ graphics_new = "DepthStencilView"
    /\ window_new = "Err"
    /\ Len(new_calls) = 13
    /\ h_wnd = HWND

(* C31: update_size compares and stores the client-area size of the window.
   While the stored size is the client size of the window as it is (the
   window rectangle is the adjusted rectangle of the stored width and height),
   no handler changes the stored width or height, raises the size-changed
   flag or starts a resize of the render surface; so a gesture that only
   moves a freshly constructed window is a no-op. *)
C31_UpdateSizeReadsClientSize ==
    [][(winSize = AdjustWindowRect(width, height)) =>
          /\ width' = width
          /\ height' = height
          /\ (~window_size_changed => ~window_size_changed')
          /\ pc' \notin ResizePcs]_vars

(* C32: the numeric-lock scan code 0x45 decodes to None for every combination
   of the E0 and E1 flags, and a record decodes to Pause exactly when its
   code (the low 7 bits of the make code) is 0x1D with E0 clear and E1 set. *)
C32_NumLockNonePauseOverride ==
    DecodedRecord =>
        LET key_code == msg.raw.make_code % 128
        IN  /\ key_code = 69 => decoded = "None" /\ input.keys_held = {}
            /\ (decoded = "Pause") <=> (key_code = 29 /\ ~msg.raw.e0 /\ msg.raw.e1)
            /\ \A e0 \in BOOLEAN, e1 \in BOOLEAN :
                  parse_vkey([msg.raw EXCEPT !.make_code = 69, !.e0 = e0, !.e1 = e1]) = "None"

\* A press of the numeric-lock code with both flags set was dispatched: it
\* decoded to None and no key reached the input model.
C32_Witness ==
    /\ DecodedRecord
    /\ msg.raw.make_code = 69
    /\ msg.raw.e0
    /\ msg.raw.e1
    /\ msg.raw.pressed
    /\ decoded = "None"
    /\ input.keys_pressed = {}

(* --------------------------------------------- size-constraint queries *)

\* The system asks the window for its size constraints, in any state of the
\* window; it waits for the answer before it asks again.
OsGetMinMaxInfo ==
    /\ OsCanPost
    /\ \A i \in 1..Len(queue) : queue[i].message # "WM_GETMINMAXINFO"
    /\ min_max_info' = OsMinMaxInfo
    /\ Post(Msg("WM_GETMINMAXINFO", "0", NoRaw))
    /\ UNCHANGED <<input, width, height, h_wnd, constructVars, msg, minimized, in_size_move,
                   window_size_changed, winSize, osMinimized, osSizeMove, keysDown,
                   destroyed, surfaceVars, registryVars, rendering, pc, resize_arg,
                   historyVars, mouseVars, frameVars, traceVars>>

\* The user starts or ends a gesture, minimizes or restores the window.
OsStateEvent ==
    /\ \/ OsEnterSizeMove
       \/ OsExitSizeMove
       \/ OsMinimize
       \/ OsRestore(winSize)
    /\ UNCHANGED <<winVars, surfaceVars, registryVars, rendering, pc, resize_arg, historyVars,
                   mouseVars, frameVars, traceVars>>

MinMaxNext ==
    \/ OsGetMinMaxInfo
    \/ OsStateEvent
    \/ poll_events_entry
    \/ poll_events_empty
    \/ poll_events_dispatch
    \/ rsc_om_set_render_targets
    \/ rsc_drop_render_target_view
    \/ rsc_drop_depth_stencil_view
    \/ rsc_flush
    \/ rsc_resize_buffers
    \/ rsc_create_render_target_view
    \/ rsc_create_depth_stencil_view
    \/ rsc_rs_set_viewports
    \/ update_viewports

MinMaxSpec == Init /\ [][MinMaxNext]_vars

(* C33: minimum size. Every size-constraint query is answered by its own
   handler call with the minimum 800x600, whether the window is idle, in a
   gesture or minimized; the handler changes no field of the window, makes
   no call of update_size and starts no resize; and once no query is
   waiting, the structure of the last query holds the minimum 800x600. *)
C33_MinimumSize ==
    /\ [][Handles("WM_GETMINMAXINFO") =>
            /\ min_max_info'.min_track_size = <<800, 600>>
            /\ min_max_info'.max_track_size = min_max_info.max_track_size
            /\ pc' = "peek"
            /\ update_size_calls' = update_size_calls
            /\ commits' = commits
            /\ UNCHANGED <<input, width, height, h_wnd, graphics, minimized, in_size_move,
                           window_size_changed, mouse_center, update_mouse_center,
                           debug_logging, surfaceVars, registryVars, resize_arg>>]_vars
    /\ []((min_max_info # None /\ \A i \in 1..Len(queue) :
                                     queue[i].message # "WM_GETMINMAXINFO")
            => min_max_info.min_track_size = <<800, 600>>)

\* A query that arrived during a resize gesture has been answered.
C33_Witness ==
    /\ pc = "peek"
    /\ msg.message = "WM_GETMINMAXINFO"
    /\ in_size_move
    /\ min_max_info = [min_track_size |-> <<800, 600>>, max_track_size |-> <<1936, 1096>>]

\* No size notification or gesture end is waiting in the queue.
SizeNotificationsProcessed ==
    \A i \in 1..Len(queue) : queue[i].message \notin {"WM_SIZE", "WM_EXITSIZEMOVE"}

(* C34: stored size tracks the window. Whenever the window is not minimized,
   no resize gesture is in progress, every size notification delivered so
   far has been processed and no handler is running, the stored width and
   height are the current size of the window (its window rectangle, or the
   client size of that rectangle); also after the window was minimized and
   then restored to a size it did not have before. *)
C34_StoredSizeTracksWindow ==
    (/\ pc \in {"host", "peek"}
     /\ ~osMinimized /\ ~minimized
     /\ ~osSizeMove /\ ~in_size_move
     /\ SizeNotificationsProcessed)
    => \/ <<width, height>> = winSize
       \/ AdjustWindowRect(width, height) = winSize

(* C35: the warp target is never stale. At every cursor warp made while the
   mouse is locked, with every notification of a window move or resize
   already handled, the warp goes to mouse_center and mouse_center is the
   screen position of the client-area point (width / 2, height / 2) for the
   position the window has and the size the Window stores. *)
C35_WarpTargetNeverStale ==
    [][(/\ pc = "reset_mouse_position"
        /\ warps' # <<>>
        /\ \A i \in 1..Len(queue) : queue[i].message # "WM_WINDOWPOSCHANGED")
       => /\ warps'[1] = mouse_center'
          /\ mouse_center' = client_to_screen(winPos, width \div 2, height \div 2)]_vars

(* C36: construction-time guard. A size notification or gesture end handled
   while the Window holds no native handle makes update_size return: the
   stored size, the size-changed flag and the render surface are not touched
   and control returns to the caller; and whenever update_size is called
   with the handle stored, the graphics object is present and the call does
   not abort. *)
C36_ConstructionGuard ==
    /\ [][(update_size_calls' = update_size_calls + 1 /\ h_wnd = NULL) =>
            /\ pc' = pc
            /\ commits' = commits
            /\ UNCHANGED <<width, height, window_size_changed, graphics, surfaceVars,
                           resize_arg, call_log>>]_vars
    /\ [][(update_size_calls' = update_size_calls + 1 /\ h_wnd # NULL) =>
            /\ graphics = "Some"
            /\ pc' # "panicked"]_vars

(* C37: back-pointer validity. Every message that message_router hands to
   wnd_proc during window creation is handled with the back-pointer that a
   WM_CREATE stored in the user-data slot of the window: a message other
   than WM_CREATE is never routed while the slot is unset. *)
C37_BackPointerValid ==
    [][(pc \in SendingCalls /\ queue # <<>> /\ queue' = Tail(queue)) =>
          \/ Head(queue).message = "WM_CREATE"
          \/ user_data # NULL]_vars


(* --------------------------------------------- borrows of the device context *)

\* The positions inside resize_swap_chain at which its guard is alive.
HoldsGuard == {"drop_render_target_view", "drop_depth_stencil_view", "flush", "resize_buffers",
               "create_render_target_view", "create_depth_stencil_view", "rs_set_viewports"}

(* C38: single borrow of the device context. Over every sequence of
   poll_events calls with resize commits, begin_render (with its
   set_active_viewport), end_render and the viewport policy calls of
   update_viewports, no borrow_mut finds the cell of the device context
   borrowed, so the runtime borrow check never fails; a borrow is out only
   while resize_swap_chain runs, and it is back before the policies are
   called and before any host call. *)
C38_SingleBorrow ==
    /\ device_context # "BorrowMutError"
    /\ device_context = "borrowed" => pc \in HoldsGuard \cup {"panicked"}

\* A frame is open and a resize has just returned its borrow: the policy of a
\* registered viewport is about to be called.
C38_Witness ==
    /\ pc = "update_viewports"
    /\ WithUpdater(viewports) # <<>>
    /\ rendering
    /\ get_viewport(default_viewport) # 0
    /\ device_context = "unborrowed"


(* ------------------------------------------------------- closing the window *)

\* A quit message waits in the queue.
QuitPosted == \E i \in 1..Len(queue) : queue[i].message = "WM_QUIT"

(* C39: close leads to quit. The step that dispatches a close request leaves
   the window destroyed and, through the destroy notification, a quit message
   in the queue; and whenever a quit message is in the queue, a poll_events
   call returns false later on: the drain loop that dispatched the close
   request goes on to the quit message, whatever else is in the queue. *)
C39_CloseLeadsToQuit ==
    /\ [][(pc = "peek" /\ queue # <<>> /\ Head(queue).message = "WM_CLOSE"
             /\ events' = events) =>
            (destroyed' /\ QuitPosted')]_vars
    /\ (destroyed /\ QuitPosted) ~> (poll_result = "false" /\ msg.message = "WM_QUIT")

\* poll_events has returned false after it dispatched the close request and
\* another message in the same call, with the mouse locked.
C39_Witness ==
    /\ pc = "host"
    /\ destroyed
    /\ poll_result = "false"
    /\ msg.message = "WM_QUIT"
    /\ dispatched > 1
    /\ is_mouse_locked(input)

====
